---- MODULE Spec2Model ----
(***************************************************************************)
(* A model of the datschain node: the block pipeline (Block, Blockchain,   *)
(* BlockManager, the mining service), the authenticated ledger (Tree,      *)
(* Ledger, Storage) and the gossip overlay (handle_connection,             *)
(* broadcast_to_peers), translated from the Rust sources.                  *)
(*                                                                         *)
(* Hashes are modelled as perfect hashes: transform(s) is the tagged       *)
(* preimage, so two hashes are equal iff their inputs are.  The only       *)
(* property of the digest bytes the code inspects is the leading byte of   *)
(* the hex text (meets_difficulty); it is derived from the preimage by a   *)
(* fixed mixing function.                                                  *)
(***************************************************************************)
EXTENDS Integers, Sequences, FiniteSets, TLC

VARIABLES
    blocks,                 \* Blockchain.blocks
    current_difficulty_bits,\* Blockchain.current_difficulty_bits
    genesis_hash,           \* Blockchain.genesis_hash
    pending_transactions,   \* BlockManager.pending_transactions
    unfinalized_blocks,     \* BlockManager.unfinalized_blocks (insertion-ordered)
    last_block_time,        \* BlockManager.last_block_time
    block_interval,         \* BlockManager.block_interval
    now,                    \* the wall clock (Instant::now / get_timestamp)
    svc,                    \* the mining service task: its position and locals
    published,              \* messages the mining service handed to the sink
    accepted,               \* every transaction passed to add_transaction
    last,                   \* the operation that made the last step, and its result
    trees,                  \* Ledger.mining_tree, accounts_tree, blocks_tree
    entries,                \* Ledger.entries
    db,                     \* Storage.db: the durable key-value store
    committed,              \* the keys whose commit returned a proof
    calls,                  \* number of commit_with_identifier calls made
    peers,                  \* SharedState.peers: the registered peer addresses
    chan,                   \* the send channel (peer_tx / peer_rx) of each peer
    seen_messages,          \* SharedState.seen_messages
    conn,                   \* the receive task of each connection: position and frame
    spawned,                \* the relay sends spawned and not yet run
    bq,                     \* the frames sent on the global broadcast channel
    intake_runs,            \* per msg_id: how often the receive path ran receive_from_peer
    relay_attempts,         \* per msg_id: how often the receive path relayed
    traffic,                \* inbound frames read and local publications made
    tasks,                  \* the send and broadcast-forward tasks of each connection
    connector,              \* the connect_to_peers task of each seed address
    lock_owner,             \* the task holding each of the four async mutexes
    task_pc                 \* the position of each task in its locking sequence

chainVars == <<blocks, current_difficulty_bits, genesis_hash>>
managerVars == <<pending_transactions, unfinalized_blocks, last_block_time, block_interval>>
pipelineVars == <<chainVars, managerVars, now, svc, published, accepted>>
ledgerVars == <<trees, entries, db, committed, calls>>
lockVars == <<lock_owner, task_pc>>
netVars == <<peers, chan, seen_messages, conn, spawned, bq, intake_runs, relay_attempts,
             traffic, tasks, connector>>
vars == <<blocks, current_difficulty_bits, genesis_hash, pending_transactions,
          unfinalized_blocks, last_block_time, block_interval, now, svc,
          published, accepted, last, trees, entries, db, committed, calls,
          peers, chan, seen_messages, conn, spawned, bq, intake_runs,
          relay_attempts, traffic, tasks, connector, lock_owner, task_pc>>
\* what the block pipeline does not touch
outsidePipeline == <<ledgerVars, netVars, lockVars>>
\* what the callers of the Ledger do not touch
outsideLedger == <<pipelineVars, netVars, lockVars>>
\* what taking and dropping the mutexes does not touch
outsideLocks == <<pipelineVars, last, ledgerVars, netVars>>
\* what the gossip overlay does not touch besides the Ledger
outsideNet == <<pipelineVars, lockVars>>

----------------------------------------------------------------------------
(* Bounds of the model *)

\* largest difficulty the Blockchain is constructed with
MaxDifficulty == 3
\* the chain is grown up to this many blocks
MaxChain == 2
\* the clock runs up to this value
MaxClock == 1
\* transactions offered to the BlockManager over a run (the n-th is transaction n)
MaxTxs == 1
\* largest BlockManager interval (seconds) a run is constructed with
MaxInterval == 1
\* largest nonce of a block handed to add_block from outside
MaxNonce == 1
\* distinct ledger values offered to the Ledger
MaxValues == 2
\* commit_with_identifier calls made over a run
MaxCalls == 3
\* distinct ledger values carried by gossip messages
MaxData == 1
\* peer addresses that may connect
MaxPeers == 2
\* inbound frames read over a run, all connections together
MaxFrames == 2
\* local publications (broadcast_to_peers calls) over a run
MaxBroadcasts == 1
\* peer receive tasks that contend for the mutexes
MaxReceivers == 1

\* transactions offered while the block manager is watched on its own
MaxPending == 2

\* add_transaction calls made before the block interval has elapsed
CallsWithin == 3

\* seconds around each retarget threshold
MaxSlack == 1

\* length of the byte sequences handed to meets_difficulty
MaxBytes == 2

\* the proof-of-work loop of Block::mine runs max_attempts times (1_000_000 in
\* the source); the model scales the loop down to this many attempts
max_attempts == 3

\* program constants of get_difficulty_target
INITIAL_DIFFICULTY_BITS == 16
TARGET_BLOCK_TIME == 600
DIFFICULTY_ADJUSTMENT_INTERVAL == 2016

\* program constants of connect_to_peers: attempts per seed address, the delay
\* the task starts with and what each retry adds to it, in seconds
connect_max_attempts == 5
initial_delay == 15
delay_step == 10

----------------------------------------------------------------------------
(* Helpers *)

Last(s) == s[Len(s)]

RECURSIVE SumSeq(_)
SumSeq(s) == IF s = <<>> THEN 0 ELSE Head(s) + SumSeq(Tail(s))

\* u64::saturating_sub
saturating_sub(a, b) == IF a >= b THEN a - b ELSE 0

----------------------------------------------------------------------------
(* cryptography/hash.rs, chain/block.rs: hashing and proof of work *)

\* Keccak-256 as a perfect hash: the digest stands for its input.
transform(input) == <<"keccak256", input>>

\* Block::build_block_data: hex(previous_hash) ++ transform(tx hashes) ++ nonce ++ timestamp
build_block_data(transactions, previous_hash, nonce, timestamp) ==
    <<previous_hash, transform(transactions), nonce, timestamp>>

\* The first hex digit (0..15) of a block hash: a fixed function of the hashed data.
RECURSIVE Depth(_)
Depth(h) == IF h = <<>> THEN 0 ELSE 1 + Depth(h[2][1])

FirstNibble(h) ==
    LET d == h[2]
    IN  (7 * d[3] + 3 * d[4] + 5 * Len(d[2][2]) + SumSeq(d[2][2]) + 11 * Depth(d[1])) % 16

\* the bytes of a hash as they would be if the raw digest were used: the first
\* hex digit is the high half of the first byte
HashBytes_of_raw_digest(h) ==
    IF h = <<>> THEN <<>> ELSE <<16 * FirstNibble(h)>>

\* transform(..).into_bytes(): the ASCII bytes of the hex text; the first byte
\* is '0'..'9' (48..57) or 'a'..'f' (97..102).  Later bytes are hex characters
\* too, hence never zero, and meets_difficulty stops at the first non-zero byte.
HashBytes(h) ==
    IF h = <<>> THEN <<>>
    ELSE LET n == FirstNibble(h) IN <<IF n < 10 THEN 48 + n ELSE 87 + n>>

\* the inner while loop of meets_difficulty: zero bits before the first set
\* bit of a non-zero byte, mask running from 0x80 down
RECURSIVE LeadingZerosOfByte(_, _)
LeadingZerosOfByte(byte, mask) ==
    IF mask > 0 /\ (byte \div mask) % 2 = 0
    THEN 1 + LeadingZerosOfByte(byte, mask \div 2)
    ELSE 0

\* the for loop of meets_difficulty
RECURSIVE LeadingZeros(_)
LeadingZeros(bytes) ==
    IF bytes = <<>> THEN 0
    ELSE IF Head(bytes) = 0 THEN 8 + LeadingZeros(Tail(bytes))
    ELSE LeadingZerosOfByte(Head(bytes), 128)

\* meets_difficulty with a strict comparison
meets_difficulty_strict(bytes, target_bits) == LeadingZeros(bytes) > target_bits

\* Block::meets_difficulty
meets_difficulty(bytes, target_bits) == LeadingZeros(bytes) >= target_bits

\* Block::new: the hash is computed with the first get_timestamp() call (t1),
\* the timestamp field is the second call (t2).
Block_new(transactions, previous_hash, height, t1, t2) ==
    [transactions |-> transactions,
     previous_hash |-> previous_hash,
     hash |-> transform(build_block_data(transactions, previous_hash, 0, t1)),
     nonce |-> 0,
     timestamp |-> t2,
     status |-> "Unfinalized",
     height |-> height]

\* Block::verify
Block_verify(block, target_bits) ==
    LET hash == transform(build_block_data(block.transactions, block.previous_hash,
                                           block.nonce, block.timestamp))
    IN  IF hash # block.hash THEN FALSE
        ELSE meets_difficulty(HashBytes(hash), target_bits)

\* Block::add_transaction without the status test
Block_add_transaction_without_status_test(block, tx) ==
    <<TRUE, [block EXCEPT !.transactions = Append(@, tx)]>>

\* Block::add_transaction: <<returned bool, block afterwards>>
Block_add_transaction(block, tx) ==
    IF block.status = "Finalized" THEN <<FALSE, block>>
    ELSE <<TRUE, [block EXCEPT !.transactions = Append(@, tx)]>>

\* Blockchain::get_block_by_height (heights count from 0, sequences from 1)
get_block_by_height(chain_blocks, height) == chain_blocks[height + 1]

\* f64 values of get_difficulty_target are ratios <<numerator, denominator>> of
\* integers below 2^53 with a positive denominator: the division and the
\* comparisons with 0.25, 1.0 and 4.0 are exact on them
f64_div(a, b) == <<a, b>>

f64_lt(x, y) == x[1] * y[2] < y[1] * x[2]

f64_max(x, y) == IF f64_lt(x, y) THEN y ELSE x

f64_min(x, y) == IF f64_lt(y, x) THEN y ELSE x

\* u64 subtraction of two timestamps; when it wraps the difference is near
\* 2^64, which is above every threshold of get_difficulty_target
time_diff_u64(timestamp, start_timestamp, expected_time) ==
    IF timestamp >= start_timestamp THEN timestamp - start_timestamp
    ELSE expected_time * 4 + 1

\* get_difficulty_target with the ratio taken in u64 (the casts to f64 left out)
get_difficulty_target_with_integer_ratio(block, chain_blocks, chain_bits) ==
    IF block.height = 0 THEN INITIAL_DIFFICULTY_BITS
    ELSE IF block.height % DIFFICULTY_ADJUSTMENT_INTERVAL # 0 THEN chain_bits
    ELSE LET adjustment_start_block ==
                 get_block_by_height(chain_blocks, block.height - DIFFICULTY_ADJUSTMENT_INTERVAL)
             expected_time == TARGET_BLOCK_TIME * DIFFICULTY_ADJUSTMENT_INTERVAL
             time_diff == time_diff_u64(block.timestamp, adjustment_start_block.timestamp,
                                        expected_time)
         IN  IF time_diff < expected_time \div 4 THEN chain_bits + 1
             ELSE IF time_diff > expected_time * 4 THEN saturating_sub(chain_bits, 1)
             ELSE IF expected_time \div time_diff > 1 THEN chain_bits + 1
             ELSE IF expected_time \div time_diff < 1 THEN saturating_sub(chain_bits, 1)
             ELSE chain_bits

\* Block::get_difficulty_target
get_difficulty_target(block, chain_blocks, chain_bits) ==
    IF block.height = 0 THEN INITIAL_DIFFICULTY_BITS
    ELSE IF block.height % DIFFICULTY_ADJUSTMENT_INTERVAL # 0 THEN chain_bits
    ELSE LET adjustment_start_block ==
                 get_block_by_height(chain_blocks, block.height - DIFFICULTY_ADJUSTMENT_INTERVAL)
             expected_time == TARGET_BLOCK_TIME * DIFFICULTY_ADJUSTMENT_INTERVAL
             time_diff == time_diff_u64(block.timestamp, adjustment_start_block.timestamp,
                                        expected_time)
             adjustment == f64_min(f64_max(f64_div(expected_time, time_diff), <<1, 4>>),
                                   <<4, 1>>)
         IN  IF time_diff < expected_time \div 4 THEN chain_bits + 1
             ELSE IF time_diff > expected_time * 4 THEN saturating_sub(chain_bits, 1)
             ELSE IF f64_lt(<<1, 1>>, adjustment) THEN chain_bits + 1
             ELSE IF f64_lt(adjustment, <<1, 1>>) THEN saturating_sub(chain_bits, 1)
             ELSE chain_bits

\* add_block as it would be without the height check
add_block_without_height_check(chain_blocks, chain_genesis_hash, chain_bits, block) ==
    IF block.status = "Unfinalized" THEN <<"UnfinalizedBlock", chain_blocks>>
    ELSE IF block.previous_hash # Last(chain_blocks).hash
         THEN <<"InvalidPreviousHash", chain_blocks>>
    ELSE IF ~Block_verify(block, chain_bits) THEN <<"InvalidProofOfWork", chain_blocks>>
    ELSE <<"Ok", Append(chain_blocks, block)>>

\* add_block as it would be without re-verifying the proof of work
add_block_without_verify(chain_blocks, chain_genesis_hash, chain_bits, block) ==
    IF block.status = "Unfinalized" THEN <<"UnfinalizedBlock", chain_blocks>>
    ELSE IF block.previous_hash # Last(chain_blocks).hash
         THEN <<"InvalidPreviousHash", chain_blocks>>
    ELSE IF block.height # Len(chain_blocks) THEN <<"InvalidBlockHeight", chain_blocks>>
    ELSE <<"Ok", Append(chain_blocks, block)>>

\* Blockchain::add_block: <<result, blocks afterwards>>
add_block(chain_blocks, chain_genesis_hash, chain_bits, block) ==
    LET expected_prev_hash ==
            IF chain_blocks # <<>> THEN Last(chain_blocks).hash ELSE chain_genesis_hash
    IN  IF block.status = "Unfinalized" THEN <<"UnfinalizedBlock", chain_blocks>>
        ELSE IF block.previous_hash # expected_prev_hash
             THEN <<"InvalidPreviousHash", chain_blocks>>
        ELSE IF block.height # Len(chain_blocks)
             THEN <<"InvalidBlockHeight", chain_blocks>>
        ELSE IF ~Block_verify(block, chain_bits)
             THEN <<"InvalidProofOfWork", chain_blocks>>
        ELSE <<"Ok", Append(chain_blocks, block)>>

----------------------------------------------------------------------------
(* chain/block_manager.rs: the unfinalised map is a LinkedHashMap, modelled as
   the sequence of its <<height, block>> entries in insertion order *)

\* LinkedHashMap::insert: a present key is replaced and moved to the back
map_insert(m, k, v) ==
    Append(SelectSeq(m, LAMBDA e : e[1] # k), <<k, v>>)

\* LinkedHashMap::remove
map_remove(m, k) == SelectSeq(m, LAMBDA e : e[1] # k)

map_contains(m, k) == \E i \in 1..Len(m) : m[i][1] = k

\* BlockManager::remove_unfinalized_block
remove_unfinalized_block(m, height) == map_remove(m, height)

\* Block::finalize, called as self.finalize(self.clone(), ..): `copy` is the
\* clone taken before the call, `self` gets status Finalized.
\* <<self afterwards, blocks afterwards, unfinalized afterwards, add_block result>>
finalize(self, copy, chain_blocks, chain_genesis_hash, chain_bits, unfinalized) ==
    LET self1 == [self EXCEPT !.status = "Finalized"]
        r == add_block(chain_blocks, chain_genesis_hash, chain_bits, copy)
    IN  IF r[1] = "Ok"
        THEN <<self1, r[2], remove_unfinalized_block(unfinalized, self1.height), r[1]>>
        ELSE <<self1, r[2], unfinalized, r[1]>>

\* the loop of Block::mine from attempt number `attempt` on:
\* <<returned bool, self afterwards, blocks, unfinalized, add_block result>>
RECURSIVE mine_loop(_, _, _, _, _, _, _)
mine_loop(self, attempt, target_bits, chain_blocks, chain_genesis_hash, chain_bits, unfinalized) ==
    IF attempt >= max_attempts
    THEN <<FALSE, self, chain_blocks, unfinalized, "none">>
    ELSE LET self1 == [self EXCEPT !.nonce = @ + 1]
             hash == transform(build_block_data(self1.transactions, self1.previous_hash,
                                                self1.nonce, self1.timestamp))
         IN  IF meets_difficulty(HashBytes(hash), target_bits)
             THEN LET self2 == [self1 EXCEPT !.hash = hash]
                      f == finalize(self2, self2, chain_blocks, chain_genesis_hash,
                                    chain_bits, unfinalized)
                  IN  <<TRUE, f[1], f[2], f[3], f[4]>>
             ELSE mine_loop(self1, attempt + 1, target_bits, chain_blocks,
                            chain_genesis_hash, chain_bits, unfinalized)

\* mine with a loop that starts counting at 1
mine_with_short_loop(self, chain_blocks, chain_genesis_hash, chain_bits, unfinalized) ==
    mine_loop(self, 1, get_difficulty_target(self, chain_blocks, chain_bits),
              chain_blocks, chain_genesis_hash, chain_bits, unfinalized)

\* Block::mine
mine(self, chain_blocks, chain_genesis_hash, chain_bits, unfinalized) ==
    mine_loop(self, 0, get_difficulty_target(self, chain_blocks, chain_bits),
              chain_blocks, chain_genesis_hash, chain_bits, unfinalized)

\* process_block_creation as it would be if it cloned the pending transactions
\* instead of taking them
process_block_creation_without_take(pending, unfinalized, lbt, interval, chain_blocks, chain_genesis_hash, t, t2) ==
    IF pending = <<>> THEN <<[transactions |-> <<>>, previous_hash |-> <<>>, hash |-> <<>>,
                              nonce |-> 0, timestamp |-> 0, status |-> "none", height |-> 0],
                             pending, unfinalized, lbt>>
    ELSE IF t - lbt < interval
    THEN <<[transactions |-> <<>>, previous_hash |-> <<>>, hash |-> <<>>,
            nonce |-> 0, timestamp |-> 0, status |-> "none", height |-> 0],
           pending, unfinalized, lbt>>
    ELSE LET height == Len(chain_blocks)
             new_block == Block_new(pending, Last(chain_blocks).hash, height, t, t2)
         IN  <<new_block, pending, map_insert(unfinalized, height, new_block), t>>

\* BlockManager::process_block_creation; t2 is the second get_timestamp() of
\* Block::new.  <<returned block or NoBlock, pending, unfinalized, last_block_time>>
NoBlock == [transactions |-> <<>>, previous_hash |-> <<>>, hash |-> <<>>, nonce |-> 0,
            timestamp |-> 0, status |-> "none", height |-> 0]

process_block_creation(pending, unfinalized, lbt, interval, chain_blocks, chain_genesis_hash, t, t2) ==
    IF pending = <<>> THEN <<NoBlock, pending, unfinalized, lbt>>
    ELSE IF t - lbt < interval THEN <<NoBlock, pending, unfinalized, lbt>>
    ELSE LET height == Len(chain_blocks)
             previous_hash == IF chain_blocks # <<>> THEN Last(chain_blocks).hash
                              ELSE chain_genesis_hash
             new_block == Block_new(pending, previous_hash, height, t, t2)
         IN  <<new_block, <<>>, map_insert(unfinalized, height, new_block), t>>

\* add_transaction as it would be if it pushed onto the last chain block itself
\* instead of onto a clone of it
add_transaction_on_chain_block(pending, unfinalized, lbt, interval, chain_blocks, chain_genesis_hash, transaction, t, t2) ==
    LET n == Len(chain_blocks)
    IN  <<Append(pending, transaction), unfinalized, lbt,
          [chain_blocks EXCEPT ![n] = Block_add_transaction(chain_blocks[n], transaction)[2]]>>

\* BlockManager::add_transaction(&mut self, &mut Blockchain, tx):
\* <<pending, unfinalized, last_block_time, blocks>>.  Without an unfinalised
\* block the transaction goes to a clone of the last chain block or to the
\* block returned by process_block_creation; both are dropped on return.
add_transaction(pending, unfinalized, lbt, interval, chain_blocks, chain_genesis_hash, transaction, t, t2) ==
    LET pending1 == Append(pending, transaction)
    IN  IF unfinalized # <<>>
        THEN LET n == Len(unfinalized)
                 b == Block_add_transaction(unfinalized[n][2], transaction)[2]
             IN  <<pending1, [unfinalized EXCEPT ![n] = <<unfinalized[n][1], b>>], lbt,
                   chain_blocks>>
        ELSE IF Last(chain_blocks).status = "Finalized"
        THEN LET r == process_block_creation(pending1, unfinalized, lbt, interval,
                                             chain_blocks, chain_genesis_hash, t, t2)
             IN  <<r[2], r[3], r[4], chain_blocks>>
        ELSE <<pending1, unfinalized, lbt, chain_blocks>>

----------------------------------------------------------------------------
(* storage/tree.rs: Tree wraps rs_merkle's MerkleTree.  The tree is the list of
   its commits (each the leaves the commit added) and the staged leaves; an
   inner node is the hash of its two children, a node without a sibling is
   promoted unchanged. *)

RECURSIVE Flatten(_)
Flatten(ss) == IF ss = <<>> THEN <<>> ELSE Head(ss) \o Flatten(Tail(ss))

EmptyTree == [history |-> <<>>, uncommitted |-> <<>>]

\* Tree::insert: stages a leaf
Tree_insert(tree, leaf) == [tree EXCEPT !.uncommitted = Append(@, leaf)]

\* MerkleTree::commit: the staged leaves become one more commit
MerkleTree_commit(tree) ==
    IF tree.uncommitted = <<>> THEN tree
    ELSE [history |-> Append(tree.history, tree.uncommitted), uncommitted |-> <<>>]

\* Tree::rollback (MerkleTree::rollback): the most recent commit is removed
Tree_rollback(tree) ==
    IF tree.history = <<>> THEN tree
    ELSE [tree EXCEPT !.history = SubSeq(@, 1, Len(@) - 1)]

\* Tree::get_leaves: the committed leaves in insertion order
get_leaves(tree) == Flatten(tree.history)

\* one layer of the tree from the layer below it
ParentLayer(layer) ==
    [i \in 1..((Len(layer) + 1) \div 2) |->
        IF 2 * i <= Len(layer) THEN transform(<<layer[2 * i - 1], layer[2 * i]>>)
        ELSE layer[2 * i - 1]]

RECURSIVE RootOfLayer(_)
RootOfLayer(layer) == IF Len(layer) = 1 THEN layer[1] ELSE RootOfLayer(ParentLayer(layer))

NoRoot == <<"no root">>

\* Tree::get_root (MerkleTree::root)
get_root(tree) ==
    IF get_leaves(tree) = <<>> THEN NoRoot ELSE RootOfLayer(get_leaves(tree))

\* the elements of a set of naturals in increasing order
RECURSIVE Sorted(_)
Sorted(S) ==
    IF S = {} THEN <<>>
    ELSE LET m == CHOOSE x \in S : \A y \in S : x <= y IN <<m>> \o Sorted(S \ {m})

Sibling(i) == IF i % 2 = 0 THEN i + 1 ELSE i - 1

\* the sibling positions (0-based) a proof must supply for the known
\* positions K of a layer of `size` nodes
ProofPositions(K, size) == Sorted({Sibling(i) : i \in K} \cap ((0..(size - 1)) \ K))

\* MerkleTree::proof(indices).to_bytes(): the sibling hashes, layer by layer
RECURSIVE ProofOfLayer(_, _)
ProofOfLayer(K, layer) ==
    IF Len(layer) <= 1 THEN <<>>
    ELSE LET need == ProofPositions(K, Len(layer))
         IN  [j \in 1..Len(need) |-> layer[need[j] + 1]]
             \o ProofOfLayer({i \div 2 : i \in K}, ParentLayer(layer))

MerkleTree_proof(tree, indices) ==
    ProofOfLayer({indices[j] : j \in 1..Len(indices)}, get_leaves(tree))

NoHash == <<"no hash">>

\* MerkleProof::root: the root rebuilt from the known nodes (a function from
\* 0-based positions to hashes) of a layer of `size` nodes and the proof's
\* remaining hashes; NoHash when the proof does not supply what is needed
RECURSIVE RebuildRoot(_, _, _)
RebuildRoot(known, size, proof) ==
    IF size <= 1 THEN (IF 0 \in DOMAIN known THEN known[0] ELSE NoHash)
    ELSE LET need == ProofPositions(DOMAIN known, size)
         IN  IF Len(proof) < Len(need) THEN NoHash
             ELSE LET all == [i \in DOMAIN known \cup {need[j] : j \in 1..Len(need)} |->
                                 IF i \in DOMAIN known THEN known[i]
                                 ELSE proof[CHOOSE j \in 1..Len(need) : need[j] = i]]
                      parents == {i \div 2 : i \in DOMAIN known}
                      up == [q \in parents |->
                                IF 2 * q + 1 < size
                                THEN transform(<<all[2 * q], all[2 * q + 1]>>)
                                ELSE all[2 * q]]
                  IN  RebuildRoot(up, (size + 1) \div 2,
                                  SubSeq(proof, Len(need) + 1, Len(proof)))

\* MerkleProof::verify(root, indices, leaves, total_leaves)
MerkleProof_verify(proof, root, indices, leaves, total) ==
    IF Len(indices) # Len(leaves) THEN FALSE
    ELSE IF \E j \in 1..Len(indices) : indices[j] >= total THEN FALSE
    ELSE LET known == [i \in {indices[j] : j \in 1..Len(indices)} |->
                          leaves[CHOOSE j \in 1..Len(indices) : indices[j] = i]]
         IN  /\ total > 0
             /\ RebuildRoot(known, total, proof) = root

\* Tree::commit: <<ok, proof bytes, indices, tree afterwards>>.  proof_sound is
\* the verdict of the library's proof check beyond the recomputation below (an
\* injected mismatch makes it FALSE).
Tree_commit(tree, proof_sound) ==
    LET t1 == MerkleTree_commit(tree)
        leaves == get_leaves(t1)
        indices_to_prove == [j \in 1..Len(leaves) |-> j - 1]
        proof_bytes == MerkleTree_proof(t1, indices_to_prove)
        proof_valid == /\ proof_sound
                       /\ MerkleProof_verify(proof_bytes, get_root(t1), indices_to_prove,
                                             leaves, Len(leaves))
    IN  IF leaves = <<>> THEN <<TRUE, <<>>, <<>>, t1>>
        ELSE IF get_root(t1) = NoRoot THEN <<FALSE, <<>>, <<>>, Tree_rollback(t1)>>
        ELSE IF proof_valid THEN <<TRUE, proof_bytes, indices_to_prove, t1>>
        ELSE <<FALSE, <<>>, <<>>, Tree_rollback(t1)>>

\* Tree::verify_proof_bytes
verify_proof_bytes(tree, leaves_to_verify, indices, proof_bytes) ==
    IF get_root(tree) = NoRoot THEN FALSE
    ELSE MerkleProof_verify(proof_bytes, get_root(tree), indices, leaves_to_verify,
                            Len(get_leaves(tree)))

----------------------------------------------------------------------------
(* storage/ledger.rs, storage/level_db.rs *)

Categories == {"mining", "accounts", "blocks"}

\* the ledger values of the model
Values == {<<"wallet", v>> : v \in 1..MaxValues}

\* Ledger::get_key: the first 32 characters of the Keccak digest of the
\* value's debug rendering
get_key(value) == transform(<<value>>)

NoProof == [tree_identifier |-> "none", proof_indices |-> <<>>, proof_data |-> <<>>]

\* Ledger::save_entry: <<entry, entries afterwards>>
save_entry(ents, key, value, proof) ==
    LET version == IF key \in DOMAIN ents THEN ents[key].version + 1 ELSE 0
        entry == [key |-> key, value |-> value, proof |-> proof, version |-> version]
    IN  <<entry, [k \in DOMAIN ents \cup {key} |-> IF k = key THEN entry ELSE ents[k]]>>

\* Ledger::format_entry_value: the version written is the literal 0
format_entry_value(key, value) == [key |-> key, value |-> value, version |-> 0]

\* Storage::store: <<ok, db afterwards>>; kv_ok is the outcome of db.put
Storage_store(store, key, value, kv_ok) ==
    IF kv_ok
    THEN <<TRUE, [k \in DOMAIN store \cup {key} |-> IF k = key THEN value ELSE store[k]]>>
    ELSE <<FALSE, store>>

\* commit_with_identifier without the write-through to the store
commit_without_store(trs, ents, store, key, entry_value, tree_identifier, kv_ok, proof_sound) ==
    IF tree_identifier \notin Categories THEN <<NoProof, trs, ents, store>>
    ELSE LET c == Tree_commit(Tree_insert(trs[tree_identifier], key), proof_sound)
             trs1 == [trs EXCEPT ![tree_identifier] = c[4]]
         IN  IF c[1]
             THEN LET proof == [tree_identifier |-> tree_identifier,
                                proof_indices |-> c[3], proof_data |-> c[2]]
                      saved == save_entry(ents, key, entry_value, proof)
                  IN  <<proof, trs1, saved[2], store>>
             ELSE <<NoProof, trs1, ents, store>>

\* commit_with_identifier without the rollback after a failed store
commit_without_rollback(trs, ents, store, key, entry_value, tree_identifier, kv_ok, proof_sound) ==
    IF tree_identifier \notin Categories THEN <<NoProof, trs, ents, store>>
    ELSE LET c == Tree_commit(Tree_insert(trs[tree_identifier], key), proof_sound)
             trs1 == [trs EXCEPT ![tree_identifier] = c[4]]
         IN  IF c[1]
             THEN LET proof == [tree_identifier |-> tree_identifier,
                                proof_indices |-> c[3], proof_data |-> c[2]]
                      saved == save_entry(ents, key, entry_value, proof)
                      formatted_value == format_entry_value(saved[1].key, saved[1].value)
                      stored == Storage_store(store, key, formatted_value, kv_ok)
                  IN  IF stored[1] THEN <<proof, trs1, saved[2], stored[2]>>
                      ELSE <<NoProof, trs1, saved[2], stored[2]>>
             ELSE <<NoProof, trs1, ents, store>>

\* Ledger::commit_with_identifier:
\* <<returned proof or NoProof, trees, entries, db afterwards>>
commit_with_identifier(trs, ents, store, key, entry_value, tree_identifier, kv_ok, proof_sound) ==
    IF tree_identifier \notin Categories THEN <<NoProof, trs, ents, store>>
    ELSE LET c == Tree_commit(Tree_insert(trs[tree_identifier], key), proof_sound)
             trs1 == [trs EXCEPT ![tree_identifier] = c[4]]
         IN  IF c[1]
             THEN LET proof == [tree_identifier |-> tree_identifier,
                                proof_indices |-> c[3], proof_data |-> c[2]]
                      saved == save_entry(ents, key, entry_value, proof)
                      formatted_value == format_entry_value(saved[1].key, saved[1].value)
                      stored == Storage_store(store, key, formatted_value, kv_ok)
                  IN  IF stored[1] THEN <<proof, trs1, saved[2], stored[2]>>
                      ELSE <<NoProof,
                             [trs1 EXCEPT ![tree_identifier] = Tree_rollback(@)],
                             saved[2], stored[2]>>
             ELSE <<NoProof, trs1, ents, store>>

\* Ledger::verify_entry
verify_entry(trs, ents, key) ==
    IF key \notin DOMAIN ents THEN FALSE
    ELSE LET proof == ents[key].proof
         IN  IF proof = NoProof THEN FALSE
             ELSE IF proof.tree_identifier \notin Categories THEN FALSE
             ELSE verify_proof_bytes(trs[proof.tree_identifier], <<key>>,
                                     proof.proof_indices, proof.proof_data)

EmptyMap == [k \in {} |-> 0]

\* Ledger::new and an empty store
LedgerInit ==
    /\ trees = [c \in Categories |-> EmptyTree]
    /\ entries = EmptyMap
    /\ db = EmptyMap
    /\ committed = {}
    /\ calls = 0

----------------------------------------------------------------------------
(* client/network.rs, client/peer.rs, utils/conversion.rs, utils/encoding.rs *)

Addrs == 1..MaxPeers

\* message texts "<identifier>:<inner data>"; data 0 is the empty inner data,
\* data -1 an inner data that does not decode
Messages ==
    [identifier : {"blocks"}, data : (-1)..MaxData] \cup {[identifier |-> "chat", data |-> 1]}

\* utils/encoding.rs
encode_string_to_base64(data) == <<"base64", data>>

\* <<ok, decoded text>>
decode_base64_to_string(encoded) ==
    IF encoded[1] = "base64" THEN <<TRUE, encoded[2]>> ELSE <<FALSE, encoded[2]>>

\* a payload that is not base64
NotBase64 == <<"bytes", [identifier |-> "chat", data |-> 0]>>

Payloads == {encode_string_to_base64(m) : m \in Messages} \cup {NotBase64}

\* network.rs calculate_message_id: SHA-256 of the base64 payload
calculate_message_id(payload) == <<"sha256", payload>>

\* the message ids inbound frames carry: those of the publishable texts
MsgIds ==
    {calculate_message_id(encode_string_to_base64([identifier |-> "blocks", data |-> v])) :
        v \in 1..MaxData}

\* a frame on the wire: hex digits, in lower or upper case, of msg_id followed
\* by the payload; "short" has fewer than 32 bytes, "nothex" is no hex string,
\* "notutf8" is no UTF-8 text
FrameForms == {"lower", "upper", "short", "nothex", "notutf8"}

\* utils/conversion.rs to_hex: two lower-case digits per byte
to_hex(raw_bytes) == [form |-> "lower", msg_id |-> raw_bytes[1], payload |-> raw_bytes[2]]

\* utils/conversion.rs from_hex: <<ok, raw bytes>>; digits of either case parse
from_hex(hex) ==
    IF hex.form = "nothex" THEN <<FALSE, <<>>>>
    ELSE IF hex.form = "short" THEN <<TRUE, <<>>>>
    ELSE <<TRUE, <<hex.msg_id, hex.payload>>>>

Frames ==
    [form : {"lower", "upper"}, msg_id : MsgIds, payload : Payloads]
    \cup [form : {"short", "nothex", "notutf8"}, msg_id : {CHOOSE m \in MsgIds : TRUE}, payload : {NotBase64}]

NoFrame == [form |-> "nothex", msg_id |-> CHOOSE m \in MsgIds : TRUE, payload |-> NotBase64]

\* String::from_utf8 on the bytes of a frame
from_utf8(frame_bytes) == frame_bytes.form # "notutf8"

\* the receive loop up to the split at 32 bytes: <<ok, <<msg_id, payload>>>>;
\* a frame that is no UTF-8 text, no hex string or shorter than 32 bytes is
\* not ok
split_frame(frame) ==
    IF ~from_utf8(frame) THEN <<FALSE, <<>>>>
    ELSE IF ~from_hex(frame)[1] THEN <<FALSE, <<>>>>
    ELSE IF from_hex(frame)[2] = <<>> THEN <<FALSE, <<>>>>
    ELSE from_hex(frame)

\* the check-and-insert on seen_messages: <<is_seen, seen_messages afterwards>>
seen_check_without_insert(seen, msg_id) == <<msg_id \in seen, seen>>

seen_check_and_insert(seen, msg_id) == <<msg_id \in seen, seen \cup {msg_id}>>

\* the relay recipients: every registered peer
recipients_with_sender(peers_map, sender) == peers_map

\* the relay recipients: every registered peer except the sender
recipients(peers_map, sender) == {addr \in peers_map : addr # sender}

\* the 32 bytes a peer state carries in its hash field
StateHash(n) == <<"hash", <<n>>>>

\* Ledger::decode_block as process_peer_state uses it: <<ok, state>>; the
\* bytes of a peer state decode to it, whether or not they are padded to the
\* 256 bytes of the serialization buffer
decode_block(block_data) ==
    IF block_data[1] \in {"state", "state256"} /\ block_data[2] >= 1
    THEN <<TRUE, [hash |-> StateHash(block_data[2]), body |-> block_data[2]]>>
    ELSE <<FALSE, [hash |-> StateHash(0), body |-> 0]>>

\* encode_into_slice into the 256-byte buffer
encode_into_slice(new_state) == <<"state256", new_state.body>>

\* process_peer_state: is there an entry whose value decodes to a state with
\* this hash
exists(ents, hash) ==
    \E k \in DOMAIN ents :
        /\ decode_block(ents[k].value)[1]
        /\ decode_block(ents[k].value)[2].hash = hash

\* Ledger::format_entry: the stored rendering of entries[key]
format_entry(entry) == [key |-> entry.key, value |-> entry.value, version |-> entry.version]

\* process_peer_state after the tree commit c of the key: the entry with its
\* proof, the verification, the write to the store
peer_entry(trs, ents, store, bytes_key, serialized, identifier, kv_ok, c) ==
    IF ~c[1] THEN <<"Err", [trs EXCEPT ![identifier] = c[4]], ents, store, bytes_key>>
    ELSE IF ~kv_ok
    THEN <<"Err", [trs EXCEPT ![identifier] = c[4]],
           [k \in DOMAIN ents \ {bytes_key} |-> ents[k]], store, bytes_key>>
    ELSE <<"Ok", [trs EXCEPT ![identifier] = c[4]],
           [k \in DOMAIN ents \cup {bytes_key} |->
               IF k = bytes_key
               THEN [key |-> bytes_key, value |-> serialized,
                     proof |-> [tree_identifier |-> identifier, proof_indices |-> c[3],
                                proof_data |-> c[2]],
                     version |-> 0]
               ELSE ents[k]],
           [k \in DOMAIN store \cup {bytes_key} |->
               IF k = bytes_key
               THEN format_entry([key |-> bytes_key, value |-> serialized, version |-> 0])
               ELSE store[k]],
           bytes_key>>

\* process_peer_state without the test for an existing entry
process_peer_state_without_exists(trs, ents, store, block_data, identifier, kv_ok, proof_sound) ==
    IF ~decode_block(block_data)[1]
    THEN <<"Err", trs, ents, store, decode_block(block_data)[2].hash>>
    ELSE peer_entry(trs, ents, store, decode_block(block_data)[2].hash,
                    encode_into_slice(decode_block(block_data)[2]), identifier, kv_ok,
                    Tree_commit(Tree_insert(trs[identifier], decode_block(block_data)[2].hash),
                                proof_sound))

\* client/peer.rs process_peer_state:
\* <<result, trees, entries, db afterwards, bytes_key>>
process_peer_state(trs, ents, store, block_data, identifier, kv_ok, proof_sound) ==
    IF ~decode_block(block_data)[1]
    THEN <<"Err", trs, ents, store, decode_block(block_data)[2].hash>>
    ELSE IF exists(ents, decode_block(block_data)[2].hash)
    THEN <<"Err", trs, ents, store, decode_block(block_data)[2].hash>>
    ELSE peer_entry(trs, ents, store, decode_block(block_data)[2].hash,
                    encode_into_slice(decode_block(block_data)[2]), identifier, kv_ok,
                    Tree_commit(Tree_insert(trs[identifier], decode_block(block_data)[2].hash),
                                proof_sound))

\* handle_peer_message: "Block accepted" or "Rejected block"
handle_peer_message(trs, ents, store, block_data, identifier, kv_ok, proof_sound) ==
    process_peer_state(trs, ents, store, block_data, identifier, kv_ok, proof_sound)

\* the bytes the base64 inner data of a message decodes to: <<ok, bytes>>
base64_decode(data) ==
    IF data >= 1 THEN <<TRUE, <<"state", data>>>> ELSE <<FALSE, <<"state", 0>>>>

\* client/peer.rs receive_from_peer
receive_from_peer(trs, ents, store, data, identifier, kv_ok, proof_sound) ==
    IF ~base64_decode(data)[1] THEN <<"Err", trs, ents, store, StateHash(0)>>
    ELSE handle_peer_message(trs, ents, store, base64_decode(data)[2], identifier,
                             kv_ok, proof_sound)

Idle == [pc |-> "none", frame |-> NoFrame]

\* the send task and the broadcast-forward task of a connection
NoTasks == [send |-> "none", forward |-> "none"]

\* utils/env.rs get_listen_addr: the node's own address
get_listen_addr == 0

\* the seed list handed to connect_to_peers may name the node itself
Seeds == Addrs \cup {get_listen_addr}

\* the task connect_to_peers spawns for a seed address: its position, the
\* loop variables attempt and delay, the TcpStream::connect calls made and the
\* sleeps taken
NoConnector == [pc |-> "none", attempt |-> 0, delay |-> 0, tries |-> 0, waits |-> <<>>]

\* SharedState as main builds it: no peer, nothing seen
NetInit ==
    /\ peers = {}
    /\ chan = [a \in Addrs |-> <<>>]
    /\ seen_messages = {}
    /\ conn = [a \in Addrs |-> Idle]
    /\ spawned = {}
    /\ bq = <<>>
    /\ intake_runs = [m \in MsgIds |-> 0]
    /\ relay_attempts = [m \in MsgIds |-> 0]
    /\ traffic = [frames |-> 0, broadcasts |-> 0]
    /\ tasks = [a \in Addrs |-> NoTasks]
    /\ connector = [s \in Seeds |-> NoConnector]

----------------------------------------------------------------------------
(* The four async mutexes and the tasks that take them:
   chain/blockchain.rs (mining service), client/network.rs (receive path),
   client/handlers.rs (wallet admission) *)

Locks == {"Blockchain", "BlockManager", "Ledger", "Storage"}

Miner == <<"miner", 0>>
Handler == <<"handler", 0>>
Submitter == <<"submitter", 0>>
Receivers == {<<"receiver", i>> : i \in 1..MaxReceivers}
Tasks == {Miner, Handler, Submitter} \cup Receivers
NoTask == <<"none", 0>>

acquire(lock) == [op |-> "acquire", lock |-> lock, to |-> {}]
release(lock) == [op |-> "release", lock |-> lock, to |-> {}]
goto(to) == [op |-> "goto", lock |-> "none", to |-> to]
\* the call a task makes under the mutexes it holds
work(call) == [op |-> "work", lock |-> call, to |-> {}]

\* Blockchain::start_mining_service_async: the lock calls of one turn of the
\* loop and the scope ends that drop the guards
MinerProgram ==
    << acquire("Blockchain"), acquire("BlockManager"),
       work("process_block_creation"),
       release("BlockManager"), release("Blockchain"),
       goto({1, 7}),
       acquire("Blockchain"), acquire("BlockManager"),
       work("mine"),
       release("BlockManager"), release("Blockchain"),
       goto({1, 13}),
       acquire("BlockManager"),
       work("remove_unfinalized_block"),
       acquire("Ledger"), release("Ledger"),
       acquire("Ledger"), release("Ledger"),
       release("BlockManager"),
       goto({1}) >>

\* Transaction::new: a caller that offers a transaction needs the Blockchain
\* and the BlockManager behind their mutexes for BlockManager::add_transaction
SubmitterProgram ==
    << acquire("Blockchain"), acquire("BlockManager"),
       work("add_transaction"),
       release("BlockManager"), release("Blockchain"),
       goto({1}) >>

\* handle_connection: the receive loop takes the ledger, then the store, for
\* receive_from_peer and the relay
ReceiverProgram ==
    << acquire("Ledger"), acquire("Storage"),
       release("Storage"), release("Ledger"),
       goto({1}) >>

\* process_connect_request: key, commit_result, entry, formatted_entry_str
\* and store_result
HandlerProgram ==
    << acquire("Ledger"), release("Ledger"),
       acquire("Ledger"), acquire("Storage"),
       release("Storage"), release("Ledger"),
       goto({1, 8}),
       acquire("Ledger"), release("Ledger"),
       acquire("Ledger"), release("Ledger"),
       acquire("Storage"), acquire("Ledger"),
       release("Ledger"), release("Storage"),
       goto({1}) >>

Program(t) ==
    IF t = Miner THEN MinerProgram
    ELSE IF t = Handler THEN HandlerProgram
    ELSE IF t = Submitter THEN SubmitterProgram
    ELSE ReceiverProgram

\* every mutex free, every task at the start of its sequence
LocksInit ==
    /\ lock_owner = [l \in Locks |-> NoTask]
    /\ task_pc = [t \in Tasks |-> 1]

----------------------------------------------------------------------------
(* The block pipeline as a state machine *)

\* the two get_timestamp() calls of Block::new are taken within the same
\* second of the model's clock
SecondCall(t) == {t}

Record(op, res) == [op |-> op, res |-> res]

SvcIdle == [pc |-> "tick", block |-> NoBlock, block_clone |-> NoBlock]

PipelineInit ==
    /\ now = 0
    /\ \E t2 \in SecondCall(0) : blocks = <<Block_new(<<>>, <<>>, 0, 0, t2)>>
    /\ genesis_hash = blocks[1].hash
    /\ current_difficulty_bits \in 0..MaxDifficulty
    /\ pending_transactions = <<>>
    /\ last_block_time = 0
    /\ block_interval \in 0..MaxInterval
    /\ unfinalized_blocks = <<>>
    /\ svc = SvcIdle
    /\ published = <<>>
    /\ accepted = <<>>
    /\ last = Record("new", "Ok")

Init == PipelineInit /\ LedgerInit /\ NetInit /\ LocksInit

\* time passes
Tick ==
    /\ now < MaxClock
    /\ now' = now + 1
    /\ last' = Record("tick", "Ok")
    /\ UNCHANGED outsidePipeline
    /\ UNCHANGED <<chainVars, managerVars, svc, published, accepted>>

\* Transaction::new offers the transaction to BlockManager::add_transaction
AddTransactionUpTo(limit) ==
    /\ Len(accepted) < limit
    /\ \E tx \in {Len(accepted) + 1}, t2 \in SecondCall(now) :
         LET r == add_transaction(pending_transactions, unfinalized_blocks, last_block_time,
                                  block_interval, blocks, genesis_hash, tx, now, t2)
         IN  /\ pending_transactions' = r[1]
             /\ unfinalized_blocks' = r[2]
             /\ last_block_time' = r[3]
             /\ blocks' = r[4]
             /\ accepted' = Append(accepted, tx)
             /\ last' = Record("add_transaction", "Ok")
    /\ UNCHANGED outsidePipeline
    /\ UNCHANGED <<current_difficulty_bits, genesis_hash, block_interval, now, svc,
                   published>>

AddTransaction == AddTransactionUpTo(MaxTxs)

\* the blocks a caller may hand to Blockchain::add_block
InputBlocks ==
    { [transactions |-> txs, previous_hash |-> ph, hash |-> h, nonce |-> n,
       timestamp |-> now, status |-> st, height |-> ht] :
        txs \in {<<>>},
        ph \in {Last(blocks).hash, <<>>},
        n \in 1..MaxNonce,
        st \in {"Unfinalized", "Finalized"},
        ht \in {Len(blocks) - 1, Len(blocks)},
        h \in {"fresh", "stale"} }

\* the hash field of an input block: recomputed from its fields, or left as
\* Block::new computed it (nonce 0)
WithHash(b) ==
    [b EXCEPT !.hash = transform(build_block_data(b.transactions, b.previous_hash,
                                    IF b.hash = "fresh" THEN b.nonce ELSE 0, b.timestamp))]

\* a direct call of Blockchain::add_block
AddBlockOf(b) ==
    LET r == add_block(blocks, genesis_hash, current_difficulty_bits, b)
    IN  /\ r[1] = "Ok" => Len(blocks) < MaxChain
        /\ blocks' = r[2]
        /\ last' = Record("add_block", r[1])
        /\ UNCHANGED outsidePipeline
    /\ UNCHANGED <<current_difficulty_bits, genesis_hash, managerVars, now, svc,
                       published, accepted>>

AddBlock == \E b0 \in InputBlocks : AddBlockOf(WithHash(b0))

\* mining service, step 1: process_block_creation under both locks
ServiceCreate ==
    /\ svc.pc = "tick"
    /\ \E t2 \in SecondCall(now) :
         LET r == process_block_creation(pending_transactions, unfinalized_blocks,
                                         last_block_time, block_interval, blocks,
                                         genesis_hash, now, t2)
         IN  /\ pending_transactions' = r[2]
             /\ unfinalized_blocks' = r[3]
             /\ last_block_time' = r[4]
             /\ svc' = IF r[1] = NoBlock THEN SvcIdle
                       ELSE [pc |-> "mine", block |-> r[1], block_clone |-> r[1]]
             /\ last' = Record("process_block_creation",
                               IF r[1] = NoBlock THEN "None" ELSE "Some")
    /\ UNCHANGED outsidePipeline
    /\ UNCHANGED <<chainVars, block_interval, now, published, accepted>>

\* mining service, step 2: block.mine on the blocking worker, under both locks
ServiceMine ==
    /\ svc.pc = "mine"
    /\ LET r == mine(svc.block, blocks, genesis_hash, current_difficulty_bits,
                     unfinalized_blocks)
       IN  /\ blocks' = r[3]
           /\ unfinalized_blocks' = r[4]
           /\ svc' = IF r[1] THEN [svc EXCEPT !.pc = "mined", !.block = r[2]]
                     ELSE SvcIdle
           /\ last' = Record("mine", IF r[1] THEN "true" ELSE "false")
    /\ UNCHANGED outsidePipeline
    /\ UNCHANGED <<current_difficulty_bits, genesis_hash, pending_transactions,
                   last_block_time, block_interval, now, published, accepted>>

\* mining service, step 3 (Ok(true)): remove the unfinalised block and publish
\* the formatted entry of block_clone
ServicePublish ==
    /\ svc.pc = "mined"
    /\ unfinalized_blocks' = remove_unfinalized_block(unfinalized_blocks, svc.block.height)
    /\ published' = Append(published, svc.block_clone)
    /\ svc' = SvcIdle
    /\ last' = Record("publish", "Ok")
    /\ UNCHANGED outsidePipeline
    /\ UNCHANGED <<chainVars, pending_transactions, last_block_time, block_interval,
                   now, accepted>>

Next ==
    \/ Tick
    \/ AddTransaction
    \/ AddBlock
    \/ ServiceCreate
    \/ ServiceMine
    \/ ServicePublish

Spec == Init /\ [][Next]_vars

\* the Blockchain alone, driven by its callers: only add_block calls and time
NextChain ==
    \/ Tick
    \/ AddBlock

SpecChain == Init /\ [][NextChain]_vars

----------------------------------------------------------------------------
(* Claims about the block pipeline *)

BlockchainErrors ==
    {"UnfinalizedBlock", "InvalidPreviousHash", "InvalidBlockHeight", "InvalidProofOfWork"}

\* C1: in every reachable state, every block of the chain above the genesis
\* block carries its own index as height and the hash of its predecessor as
\* previous_hash (index h of the Rust vector is position h + 1 here).
C1_ChainLinked ==
    \A h \in 1..(Len(blocks) - 1) :
        /\ blocks[h + 1].height = h
        /\ blocks[h + 1].previous_hash = blocks[h].hash

\* a chain that has grown, seen right after add_block rejected another block
C1_Witness ==
    /\ Len(blocks) >= 2
    /\ last.op = "add_block"
    /\ last.res \in BlockchainErrors

\* what add_block must accept, stated on the block's fields
Acceptable(b) ==
    /\ b.status = "Finalized"
    /\ b.previous_hash = Last(blocks).hash
    /\ b.height = Len(blocks)
    /\ Block_verify(b, current_difficulty_bits)

\* C2: a call of add_block appends the block, growing the chain by exactly one,
\* iff the block is Finalized, links to the last block, has height len(blocks)
\* and re-verifies against the difficulty; otherwise it returns an error, the
\* chain is unchanged, and the error is InvalidBlockHeight when only the height
\* is wrong and InvalidProofOfWork when only the proof of work is wrong.
C2_AddBlockIff ==
    [][\A b0 \in InputBlocks :
         LET b == WithHash(b0)
         IN  AddBlockOf(b) =>
               /\ Acceptable(b) =>
                    /\ last'.res = "Ok"
                    /\ blocks' = Append(blocks, b)
                    /\ Len(blocks') = Len(blocks) + 1
               /\ ~Acceptable(b) =>
                    /\ last'.res \in BlockchainErrors
                    /\ blocks' = blocks
               /\ ( /\ b.status = "Finalized"
                    /\ b.previous_hash = Last(blocks).hash
                    /\ b.height # Len(blocks)
                    /\ Block_verify(b, current_difficulty_bits) )
                  => last'.res = "InvalidBlockHeight"
               /\ ( /\ b.status = "Finalized"
                    /\ b.previous_hash = Last(blocks).hash
                    /\ b.height = Len(blocks)
                    /\ ~Block_verify(b, current_difficulty_bits) )
                  => last'.res = "InvalidProofOfWork"
      ]_vars

\* add_block has just appended a block
C2_Witness ==
    /\ last = Record("add_block", "Ok")
    /\ Len(blocks) = 2
    /\ Last(blocks).status = "Finalized"

\* C3: across every step the old chain is a prefix of the new chain, block for
\* block and field for field, and the chain grows only by one block that
\* add_block accepts in the state before the step.
C3_AppendOnly ==
    [][/\ Len(blocks') >= Len(blocks)
       /\ SubSeq(blocks', 1, Len(blocks)) = blocks
       /\ blocks' # blocks =>
            /\ Len(blocks') = Len(blocks) + 1
            /\ add_block(blocks, genesis_hash, current_difficulty_bits, Last(blocks'))[1] = "Ok"
      ]_vars

\* the chain has grown and the block manager and the mining service have
\* worked on top of it
C3_Witness ==
    /\ Len(blocks) >= 2
    /\ accepted # <<>>
    /\ last.op \in {"add_transaction", "mine", "process_block_creation"}

\* C10: whenever mine returns true the mined block is Finalized, is the last
\* block of the chain, the chain grew by exactly one during the call, and the
\* unfinalised map has no entry at the block's height.
C10_MineTrueAppends ==
    [][(last'.op = "mine" /\ last'.res = "true") =>
          /\ svc'.block.status = "Finalized"
          /\ Len(blocks') = Len(blocks) + 1
          /\ Last(blocks') = svc'.block
          /\ ~map_contains(unfinalized_blocks', svc'.block.height)
      ]_vars

----------------------------------------------------------------------------
(* The Ledger as a state machine: its callers (wallet admission, peer intake)
   commit values under their content key *)

CommitRecord(res, key, value, cat, proof) ==
    [op |-> "commit", res |-> res, key |-> key, value |-> value, cat |-> cat, proof |-> proof]

\* the state after commit_with_identifier(key, value, tree_identifier, storage)
\* answered r
CommitOf(key, value, tree_identifier, r) ==
    /\ trees' = r[2]
    /\ entries' = r[3]
    /\ db' = r[4]
    /\ committed' = IF r[1] # NoProof THEN committed \cup {key} ELSE committed
    /\ last' = CommitRecord(IF r[1] # NoProof THEN "Some" ELSE "None", key, value,
                            tree_identifier, r[1])

\* a caller commits a value under its content key
Commit ==
    /\ calls < MaxCalls
    /\ calls' = calls + 1
    /\ \E value \in Values, tree_identifier \in Categories \cup {"other"},
          kv_ok \in BOOLEAN, proof_sound \in BOOLEAN :
           CommitOf(get_key(value), value, tree_identifier,
                    commit_with_identifier(trees, entries, db, get_key(value), value,
                                           tree_identifier, kv_ok, proof_sound))
    /\ UNCHANGED outsideLedger

IntakeRecord(res, key, data, cat) ==
    [op |-> "receive_from_peer", res |-> res, key |-> key, value |-> data, cat |-> cat,
     proof |-> NoProof]

\* the state after receive_from_peer answered r
PeerIntakeOf(data, identifier, r) ==
    /\ trees' = r[2]
    /\ entries' = r[3]
    /\ db' = r[4]
    /\ committed' = IF r[1] = "Ok" THEN committed \cup {r[5]} ELSE committed
    /\ last' = IntakeRecord(r[1], r[5], data, identifier)

\* the receive path hands the inner data of a message to receive_from_peer
PeerIntake ==
    /\ calls < MaxCalls
    /\ calls' = calls + 1
    /\ \E data \in {-1} \cup 1..MaxData, identifier \in Categories, kv_ok \in BOOLEAN :
           PeerIntakeOf(data, identifier,
                        receive_from_peer(trees, entries, db, data, identifier, kv_ok, TRUE))
    /\ UNCHANGED outsideLedger

InitLedger ==
    /\ PipelineInit
    /\ current_difficulty_bits = 0
    /\ block_interval = 0
    /\ LedgerInit
    /\ NetInit
    /\ LocksInit

NextLedger == Commit \/ PeerIntake

SpecLedger == InitLedger /\ [][NextLedger]_vars

----------------------------------------------------------------------------
(* Claims about the Ledger *)

\* C4: every entry whose commit returned a proof verifies in every later
\* state: verify_entry(key) is true for every committed key.
C4_CommittedEntriesVerify ==
    \A key \in committed : verify_entry(trees, entries, key)

\* C5: whenever commit_with_identifier returns a proof, the key is a committed
\* leaf of the selected category tree, entries[key] holds the value with that
\* proof, and the store maps the key to the formatted entry.
C5_SuccessIsWrittenThrough ==
    (last.op = "commit" /\ last.res = "Some") =>
        /\ last.cat \in Categories
        /\ \E i \in 1..Len(get_leaves(trees[last.cat])) :
               get_leaves(trees[last.cat])[i] = last.key
        /\ trees[last.cat].uncommitted = <<>>
        /\ last.key \in DOMAIN entries
        /\ entries[last.key].value = last.value
        /\ entries[last.key].proof = last.proof
        /\ last.proof # NoProof
        /\ last.key \in DOMAIN db
        /\ db[last.key] = format_entry_value(last.key, last.value)

\* a commit has just succeeded on a tree that already held a leaf
C5_Witness ==
    /\ last.op = "commit"
    /\ last.res = "Some"
    /\ Len(get_leaves(trees[last.cat])) >= 2

\* C6: whenever commit_with_identifier returns none, every category tree has
\* the committed leaves and the root it had before the call, and the store is
\* unchanged.
C6_FailureLeavesTreeAndStore ==
    [][(last'.op = "commit" /\ last'.res = "None") =>
          /\ \A c \in Categories :
                /\ get_leaves(trees'[c]) = get_leaves(trees[c])
                /\ get_root(trees'[c]) = get_root(trees[c])
          /\ db' = db
      ]_vars

\* a commit has just returned none on a tree that holds committed leaves
C6_Witness ==
    /\ last.op = "commit"
    /\ last.res = "None"
    /\ last.cat \in Categories
    /\ get_leaves(trees[last.cat]) # <<>>

----------------------------------------------------------------------------
(* The gossip overlay as a state machine *)

NetRecord(op, res, addr, frame) == [op |-> op, res |-> res, addr |-> addr, frame |-> frame]

\* handle_connection up to the receive loop: the peer is registered, the send
\* task and the broadcast-forward task are spawned
Connect(a) ==
    /\ conn[a].pc = "none"
    /\ peers' = peers \cup {a}
    /\ conn' = [conn EXCEPT ![a].pc = "read"]
    /\ tasks' = [tasks EXCEPT ![a] = [send |-> "running", forward |-> "running"]]
    /\ last' = NetRecord("connect", "Ok", a, NoFrame)
    /\ UNCHANGED <<chan, seen_messages, spawned, bq, intake_runs, relay_attempts, traffic,
                   connector>>
    /\ UNCHANGED <<outsideNet, ledgerVars>>

\* the outcome of the receive loop for one frame up to the hand-over to
\* receive_from_peer: "malformed", "duplicate", "not_ledger" or "new"
ReceiveOutcome(frame, is_seen) ==
    LET raw == split_frame(frame)
    IN  IF ~raw[1] THEN "malformed"
        ELSE IF is_seen THEN "duplicate"
        ELSE LET text == decode_base64_to_string(raw[2][2])
             IN  IF ~text[1] THEN "not_ledger"
                 ELSE IF text[2].identifier \notin Categories THEN "not_ledger"
                 ELSE IF text[2].data = 0 THEN "not_ledger"
                 ELSE "new"

\* the receive loop as it would be if a frame it cannot decode ended it
next_turn_breaking_on_error(c, frame, res) ==
    IF res = "new" THEN [pc |-> "intake", frame |-> frame]
    ELSE IF res = "malformed" THEN [pc |-> "closed", frame |-> NoFrame]
    ELSE c

\* where the receive loop stands after the first part of a turn: a new frame
\* goes on to receive_from_peer, on every other one the loop continues with
\* the next read
next_turn(c, frame, res) ==
    IF res = "new" THEN [pc |-> "intake", frame |-> frame]
    ELSE c

\* the receive loop as it would be if it handed every frame to a task of its
\* own instead of processing it before the next read
Receive_in_own_task(a, frame) ==
    /\ conn[a].pc \in {"read", "intake", "relay"}
    /\ traffic.frames < MaxFrames
    /\ traffic' = [traffic EXCEPT !.frames = @ + 1]
    /\ LET raw == split_frame(frame)
           wellformed == raw[1]
           checked == IF wellformed THEN seen_check_and_insert(seen_messages, raw[2][1])
                      ELSE <<FALSE, seen_messages>>
           res == ReceiveOutcome(frame, checked[1])
       IN  /\ seen_messages' = checked[2]
           /\ conn' = [conn EXCEPT ![a] = next_turn(@, frame, res)]
           /\ last' = NetRecord("receive", res, a,
                                IF res \in {"new", "duplicate"} THEN frame ELSE NoFrame)
    /\ UNCHANGED <<peers, chan, spawned, bq, intake_runs, relay_attempts, tasks, connector>>
    /\ UNCHANGED <<outsideNet, ledgerVars>>

\* one turn of the receive loop: read a frame, decode it, check and insert
\* its msg_id, decode the payload
Receive(a, frame) ==
    /\ conn[a].pc = "read"
    /\ traffic.frames < MaxFrames
    /\ traffic' = [traffic EXCEPT !.frames = @ + 1]
    /\ LET raw == split_frame(frame)
           wellformed == raw[1]
           checked == IF wellformed THEN seen_check_and_insert(seen_messages, raw[2][1])
                      ELSE <<FALSE, seen_messages>>
           res == ReceiveOutcome(frame, checked[1])
       IN  /\ seen_messages' = checked[2]
           /\ conn' = [conn EXCEPT ![a] = next_turn(@, frame, res)]
           /\ last' = NetRecord("receive", res, a,
                                IF res \in {"new", "duplicate"} THEN frame ELSE NoFrame)
    /\ UNCHANGED <<peers, chan, spawned, bq, intake_runs, relay_attempts, tasks, connector>>
    /\ UNCHANGED <<outsideNet, ledgerVars>>

\* the receive loop after receive_from_peer answered r: should_relay
IntakeOf(a, r) ==
    /\ trees' = r[2]
    /\ entries' = r[3]
    /\ db' = r[4]
    /\ committed' = IF r[1] = "Ok" THEN committed \cup {r[5]} ELSE committed
    /\ intake_runs' = [intake_runs EXCEPT ![conn[a].frame.msg_id] = @ + 1]
    /\ conn' = [conn EXCEPT ![a] = IF r[1] = "Ok" THEN [@ EXCEPT !.pc = "relay"]
                                   ELSE [pc |-> "read", frame |-> NoFrame]]
    /\ last' = NetRecord("intake", r[1], a, conn[a].frame)

\* the text "<identifier>:<inner data>" of a frame the receive loop decoded
TextOf(frame) == decode_base64_to_string(from_hex(frame)[2][2])[2]

\* the receive loop takes the ledger and the store and calls receive_from_peer
Intake(a) ==
    /\ conn[a].pc = "intake"
    /\ IntakeOf(a,
                receive_from_peer(trees, entries, db, TextOf(conn[a].frame).data,
                                  TextOf(conn[a].frame).identifier, TRUE, TRUE))
    /\ UNCHANGED <<peers, chan, seen_messages, spawned, bq, relay_attempts, traffic,
                   tasks, connector, calls>>
    /\ UNCHANGED outsideNet

\* should_relay: the recipients are read from peers and one send is spawned
\* for each of them
Relay(a) ==
    /\ conn[a].pc = "relay"
    /\ LET message_bytes_to_relay == conn[a].frame
       IN  /\ spawned' = spawned \cup
                  {[to |-> r, from |-> a, frame |-> message_bytes_to_relay] :
                      r \in recipients(peers, a)}
           /\ relay_attempts' = [relay_attempts EXCEPT ![conn[a].frame.msg_id] = @ + 1]
           /\ last' = NetRecord("relay", "Ok", a, conn[a].frame)
    /\ conn' = [conn EXCEPT ![a] = [pc |-> "read", frame |-> NoFrame]]
    /\ UNCHANGED <<peers, chan, seen_messages, bq, intake_runs, traffic, tasks, connector>>
    /\ UNCHANGED <<outsideNet, ledgerVars>>

\* a spawned relay send puts its frame on the recipient's channel
RelaySend(t) ==
    /\ t \in spawned
    /\ spawned' = spawned \ {t}
    /\ chan' = [chan EXCEPT ![t.to] = Append(@, t.frame)]
    /\ last' = NetRecord("send", "Ok", t.to, NoFrame)
    /\ UNCHANGED <<peers, seen_messages, conn, bq, intake_runs, relay_attempts, traffic,
                   tasks, connector>>
    /\ UNCHANGED <<outsideNet, ledgerVars>>

\* the connection is closed or fails at the read: the receive loop ends and
\* the peer is removed
Disconnect(a) ==
    /\ conn[a].pc = "read"
    /\ peers' = peers \ {a}
    /\ conn' = [conn EXCEPT ![a].pc = "closed"]
    /\ last' = NetRecord("disconnect", "Err", a, NoFrame)
    /\ UNCHANGED <<chan, seen_messages, spawned, bq, intake_runs, relay_attempts,
                   traffic, tasks, connector>>
    /\ UNCHANGED <<outsideNet, ledgerVars>>

\* broadcast_to_peers(payload_string)
Broadcast(payload_string) ==
    /\ traffic.broadcasts < MaxBroadcasts
    /\ traffic' = [traffic EXCEPT !.broadcasts = @ + 1]
    /\ LET base64_payload_bytes == encode_string_to_base64(payload_string)
           msg_id == calculate_message_id(base64_payload_bytes)
           serialized_msg_bytes_hex_encoded == to_hex(<<msg_id, base64_payload_bytes>>)
           checked == seen_check_and_insert(seen_messages, msg_id)
       IN  /\ seen_messages' = checked[2]
           /\ bq' = Append(bq, serialized_msg_bytes_hex_encoded)
           /\ last' = NetRecord("broadcast", IF checked[1] THEN "Anomaly" ELSE "Ok", 0,
                                serialized_msg_bytes_hex_encoded)
    /\ UNCHANGED <<peers, chan, conn, spawned, intake_runs, relay_attempts, tasks, connector>>
    /\ UNCHANGED <<outsideNet, ledgerVars>>

InitNet ==
    /\ PipelineInit
    /\ current_difficulty_bits = 0
    /\ block_interval = 0
    /\ LedgerInit
    /\ NetInit
    /\ LocksInit

NextNet ==
    \/ \E a \in Addrs : Connect(a)
    \/ \E a \in Addrs, frame \in Frames : Receive(a, frame)
    \/ \E a \in Addrs : Intake(a)
    \/ \E a \in Addrs : Relay(a)
    \/ \E t \in spawned : RelaySend(t)
    \/ \E a \in Addrs : Disconnect(a)
    \/ \E v \in 1..MaxData : Broadcast([identifier |-> "blocks", data |-> v])

SpecNet == InitNet /\ [][NextNet]_vars

----------------------------------------------------------------------------
(* Claims about the gossip overlay *)

\* C7: a frame is handed to receive_from_peer only if its msg_id was not in
\* seen_messages when the receive path checked it; whichever way the receive
\* tasks interleave, receive_from_peer runs at most once and the relay is
\* attempted at most once per msg_id; receiving, intake and relay leave the
\* peers map as it is.
C7_SeenIsNeverProcessedAgain ==
    [][ /\ \A a \in Addrs :
              (conn[a].pc # "intake" /\ conn'[a].pc = "intake") =>
                  conn'[a].frame.msg_id \notin seen_messages
        /\ \A m \in MsgIds :
              /\ intake_runs'[m] > intake_runs[m] => intake_runs[m] = 0
              /\ relay_attempts'[m] > relay_attempts[m] => relay_attempts[m] = 0
              /\ intake_runs'[m] > 0 => m \in seen_messages
        /\ last'.op \in {"receive", "intake", "relay"} => peers' = peers
      ]_vars

\* the frame a connection has had accepted and relayed arrives on it again and
\* is dropped
C7_Witness ==
    /\ last.op = "receive"
    /\ last.res = "duplicate"
    /\ intake_runs[last.frame.msg_id] = 1
    /\ relay_attempts[last.frame.msg_id] = 1
    /\ \E t \in spawned : t.from = last.addr /\ t.frame = last.frame

\* C8: after receive_from_peer the receive path goes on to relay iff the
\* result was Ok; on Err it enqueues nothing; the relay spawns one send of
\* the frame as it was received for every peer registered at that moment
\* other than the sender, and each send puts that frame on its recipient's
\* channel.
C8_RelayIffIntakeOk ==
    [][ /\ \A a \in Addrs :
              /\ (conn[a].pc = "read" /\ conn'[a].pc = "intake") =>
                     conn'[a].frame = last'.frame
              /\ (conn[a].pc = "intake" /\ conn'[a].pc # "intake") =>
                     /\ (conn'[a].pc = "relay") <=> (last'.res = "Ok")
                     /\ conn'[a].pc \in {"relay", "read"}
                     /\ conn'[a].pc = "relay" => conn'[a].frame = conn[a].frame
                     /\ spawned' = spawned
                     /\ chan' = chan
              /\ (conn[a].pc = "relay" /\ conn'[a].pc # "relay") =>
                     spawned' = spawned \cup
                         {[to |-> r, from |-> a, frame |-> conn[a].frame] :
                             r \in peers \ {a}}
        /\ ~(spawned' \subseteq spawned) => \E a \in Addrs : conn[a].pc = "relay"
        /\ chan' # chan =>
              \E t \in spawned :
                  /\ spawned' = spawned \ {t}
                  /\ chan' = [chan EXCEPT ![t.to] = Append(@, t.frame)]
      ]_vars

\* an upper-case frame has been relayed while another peer was registered
C8_Witness ==
    /\ last.op = "relay"
    /\ last.frame.form = "upper"
    /\ \E t \in spawned : t.from = last.addr /\ t.frame = last.frame /\ t.to \in peers

----------------------------------------------------------------------------
(* The tasks and the mutexes as a state machine *)

Instruction(t) == Program(t)[task_pc[t]]

\* lock().await and blocking_lock_owned: the task goes on when the mutex is free
Acquire(t) ==
    /\ Instruction(t).op = "acquire"
    /\ lock_owner[Instruction(t).lock] = NoTask
    /\ lock_owner' = [lock_owner EXCEPT ![Instruction(t).lock] = t]
    /\ task_pc' = [task_pc EXCEPT ![t] = @ + 1]
    /\ UNCHANGED outsideLocks

\* a guard goes out of scope
Release(t) ==
    /\ Instruction(t).op = "release"
    /\ lock_owner' = [lock_owner EXCEPT ![Instruction(t).lock] = NoTask]
    /\ task_pc' = [task_pc EXCEPT ![t] = @ + 1]
    /\ UNCHANGED outsideLocks

\* the task continues at one of the places its results can lead to
Branch(t) ==
    /\ Instruction(t).op = "goto"
    /\ \E to \in Instruction(t).to : task_pc' = [task_pc EXCEPT ![t] = to]
    /\ UNCHANGED lock_owner
    /\ UNCHANGED outsideLocks

\* the call made under the mutexes returns
Work(t) ==
    /\ Instruction(t).op = "work"
    /\ task_pc' = [task_pc EXCEPT ![t] = @ + 1]
    /\ UNCHANGED lock_owner
    /\ UNCHANGED outsideLocks

InitLocks ==
    /\ PipelineInit
    /\ current_difficulty_bits = 0
    /\ block_interval = 0
    /\ LedgerInit
    /\ NetInit
    /\ LocksInit

NextLocks ==
    \/ \E t \in Tasks : Acquire(t)
    \/ \E t \in Tasks : Release(t)
    \/ \E t \in Tasks : Branch(t)
    \/ \E t \in Tasks : Work(t)

SpecLocks == InitLocks /\ [][NextLocks]_vars

\* the place of a mutex in the order Blockchain, BlockManager, Ledger, Storage
LockRank(lock) ==
    CASE lock = "Blockchain" -> 1
      [] lock = "BlockManager" -> 2
      [] lock = "Ledger" -> 3
      [] lock = "Storage" -> 4

\* C9: no task acquires a mutex while it holds one that comes later in the
\* order Blockchain, BlockManager, Ledger, Storage.
C9_LockOrder ==
    [][ \A t \in Tasks, l \in Locks :
            (lock_owner'[l] = t /\ lock_owner[l] # t) =>
                \A held \in Locks : lock_owner[held] = t => LockRank(held) < LockRank(l)
      ]_vars

\* the call a task is about to make, "none" when it is at a lock call
Calling(t) == IF Instruction(t).op = "work" THEN Instruction(t).lock ELSE "none"

\* C11: while the mining service runs the proof-of-work loop (Block::mine) it
\* holds neither the Blockchain nor the BlockManager mutex.
C11_MiningHoldsNoLock ==
    Calling(Miner) = "mine" =>
        /\ lock_owner["Blockchain"] # Miner
        /\ lock_owner["BlockManager"] # Miner

----------------------------------------------------------------------------
(* Claims about the peer intake *)

\* the value process_peer_state stores for the inner data of a message
StoredValue(data) == encode_into_slice(decode_block(base64_decode(data)[2])[2])

----------------------------------------------------------------------------
(* Claims about the blocks of the chain and the entries of the ledger *)

\* C13: in every reachable state every block held in the chain vector has
\* status Finalized (add_block refuses an Unfinalized block, so none is ever
\* appended).
C13_ChainIsFinalized ==
    \A i \in DOMAIN blocks : blocks[i].status = "Finalized"

\* C14: every entry of the entries map, whichever path committed it, is filed
\* under its own key, and that key is get_key of the entry's value.
C14_KeyIsContentKey ==
    \A k \in DOMAIN entries :
        /\ entries[k].key = k
        /\ k = get_key(entries[k].value)

\* C15: the formatted entry a successful commit_with_identifier writes to the
\* store carries the version that commit assigned to the in-memory entry.
C15_StoredVersionIsEntryVersion ==
    (last.op = "commit" /\ last.res = "Some") =>
        db[last.key].version = entries[last.key].version

\* C16: a successful commit leaves the entry of its key at version 0 when it is
\* the first successful commit of the key, and one above the version it had
\* when it is a later one; the entries of the other keys are as before.
C16_VersionCountsCommits ==
    [][(last'.op = "commit" /\ last'.res = "Some") =>
          /\ entries'[last'.key].version =
                IF last'.key \in committed THEN entries[last'.key].version + 1 ELSE 0
          /\ \A k \in DOMAIN entries \ {last'.key} : entries'[k] = entries[k]
      ]_vars

----------------------------------------------------------------------------
(* Block::get_difficulty_target applied to blocks of chosen height and age *)

\* block heights around the first retarget
TargetHeights ==
    {0, 1, DIFFICULTY_ADJUSTMENT_INTERVAL - 1, DIFFICULTY_ADJUSTMENT_INTERVAL,
     DIFFICULTY_ADJUSTMENT_INTERVAL + 1}

\* ages of the block, in seconds since the block the retarget starts from:
\* the thresholds of the retarget and their neighbours
ElapsedTimes ==
    LET expected_time == TARGET_BLOCK_TIME * DIFFICULTY_ADJUSTMENT_INTERVAL
    IN  { th + d : th \in {0, expected_time \div 4, expected_time, expected_time * 4},
                   d \in (-MaxSlack)..MaxSlack } \cap Nat

TargetRecord(res, block) == [op |-> "get_difficulty_target", res |-> res, block |-> block]

\* the chain starts at any second of the clock
InitTarget ==
    /\ now \in 0..MaxClock
    /\ blocks = <<Block_new(<<>>, <<>>, 0, now, now)>>
    /\ genesis_hash = blocks[1].hash
    /\ current_difficulty_bits \in 0..MaxDifficulty
    /\ pending_transactions = <<>>
    /\ last_block_time = 0
    /\ block_interval = 0
    /\ unfinalized_blocks = <<>>
    /\ svc = SvcIdle
    /\ published = <<>>
    /\ accepted = <<>>
    /\ last = Record("new", "Ok")
    /\ LedgerInit
    /\ NetInit
    /\ LocksInit

\* mine asks for the target of a block built on the chain
TargetOf(block) ==
    /\ last' = TargetRecord(get_difficulty_target(block, blocks, current_difficulty_bits),
                            block)
    /\ UNCHANGED <<chainVars, managerVars, now, svc, published, accepted>>
    /\ UNCHANGED outsidePipeline

Target ==
    \E height \in TargetHeights, elapsed \in ElapsedTimes :
        TargetOf(Block_new(<<>>, Last(blocks).hash, height,
                           blocks[1].timestamp + elapsed, blocks[1].timestamp + elapsed))

NextTarget == Target

SpecTarget == InitTarget /\ [][NextTarget]_vars

\* the retarget as the claim states it
reference_target(height, current, elapsed) ==
    LET expected == TARGET_BLOCK_TIME * DIFFICULTY_ADJUSTMENT_INTERVAL
    IN  IF height = 0 THEN 16
        ELSE IF height % 2016 # 0 THEN current
        ELSE IF elapsed < expected \div 4 THEN current + 1
        ELSE IF elapsed > 4 * expected THEN IF current >= 1 THEN current - 1 ELSE 0
        ELSE IF elapsed < expected THEN current + 1
        ELSE IF elapsed > expected THEN IF current >= 1 THEN current - 1 ELSE 0
        ELSE current

\* block.timestamp - blocks[height - 2016].timestamp
ElapsedOf(block) ==
    IF block.height >= 2016 /\ block.height - 2016 < Len(blocks)
    THEN block.timestamp - blocks[block.height - 2016 + 1].timestamp
    ELSE 0

\* C17: the difficulty target computed for a block equals the reference
\* retarget function of its height, the chain's current difficulty and the
\* time elapsed since the block 2016 heights below it.
C17_TargetIsReference ==
    last.op = "get_difficulty_target" =>
        last.res = reference_target(last.block.height, current_difficulty_bits,
                                    ElapsedOf(last.block))

\* a retarget block exactly a quarter of the expected time after the start
C17_Witness ==
    /\ last.op = "get_difficulty_target"
    /\ last.block.height = 2016
    /\ ElapsedOf(last.block) = (600 * 2016) \div 4
    /\ last.res = current_difficulty_bits + 1

----------------------------------------------------------------------------
(* Claims about the proof of work *)

\* does the block's hash meet the target when its nonce is n
MeetsAt(block, n, target_bits) ==
    meets_difficulty(HashBytes(transform(build_block_data(block.transactions,
                                   block.previous_hash, n, block.timestamp))), target_bits)

\* what the claim says of the answer r of mine on `block`
MineOutcome(block, target_bits, r) ==
    /\ r[1] =>
          /\ r[2].nonce \in (block.nonce + 1)..(block.nonce + max_attempts)
          /\ MeetsAt(block, r[2].nonce, target_bits)
          /\ \A n \in (block.nonce + 1)..(r[2].nonce - 1) : ~MeetsAt(block, n, target_bits)
    /\ ~r[1] =>
          /\ r[2].nonce = block.nonce + max_attempts
          /\ \A n \in (block.nonce + 1)..(block.nonce + max_attempts) :
                ~MeetsAt(block, n, target_bits)
          /\ r[2].status = "Unfinalized"
          /\ r[2].hash = block.hash
          /\ r[3] = blocks
          /\ r[4] = unfinalized_blocks

\* C18: mine stops at the first nonce whose hash meets the difficulty;
\* otherwise it returns false after exactly max_attempts nonce increments, the
\* block keeps status Unfinalized and its stored hash, and the chain and the
\* unfinalised map are as before the call.
C18_MineStopsOrGivesUp ==
    [][last'.op = "mine" =>
          /\ MineOutcome(svc.block,
                         get_difficulty_target(svc.block, blocks, current_difficulty_bits),
                         mine(svc.block, blocks, genesis_hash, current_difficulty_bits,
                              unfinalized_blocks))
          /\ last'.res = "false" =>
                /\ blocks' = blocks
                /\ unfinalized_blocks' = unfinalized_blocks
      ]_vars

\* mine has just given up on a block that is still in the unfinalised map
C18_Witness ==
    /\ last = Record("mine", "false")
    /\ unfinalized_blocks # <<>>

----------------------------------------------------------------------------
(* Block::meets_difficulty applied to chosen byte sequences *)

\* byte values: zero, the single-bit and all-bit patterns, hex characters
ByteValues == {0, 1, 2, 48, 102, 127, 128, 255}

RECURSIVE ByteSeqs(_)
ByteSeqs(n) ==
    IF n = 0 THEN {<<>>}
    ELSE ByteSeqs(n - 1) \cup
         { Append(bytes, b) : bytes \in {q \in ByteSeqs(n - 1) : Len(q) = n - 1},
                              b \in ByteValues }

DifficultyRecord(res, hash, target_bits) ==
    [op |-> "meets_difficulty", res |-> res, hash |-> hash, target_bits |-> target_bits]

\* a hash and a target are chosen at the start
InitDifficulty ==
    /\ now = 0
    /\ blocks = <<Block_new(<<>>, <<>>, 0, 0, 0)>>
    /\ genesis_hash = blocks[1].hash
    /\ current_difficulty_bits = 0
    /\ pending_transactions = <<>>
    /\ last_block_time = 0
    /\ block_interval = 0
    /\ unfinalized_blocks = <<>>
    /\ svc = SvcIdle
    /\ published = <<>>
    /\ accepted = <<>>
    /\ \E hash \in ByteSeqs(MaxBytes), target_bits \in 0..(8 * MaxBytes + 1) :
           last = [op |-> "input", hash |-> hash, target_bits |-> target_bits]
    /\ LedgerInit
    /\ NetInit
    /\ LocksInit

\* the proof-of-work test on the chosen hash and target
Difficulty ==
    /\ last.op = "input"
    /\ last' = DifficultyRecord(meets_difficulty(last.hash, last.target_bits),
                                last.hash, last.target_bits)
    /\ UNCHANGED <<chainVars, managerVars, now, svc, published, accepted>>
    /\ UNCHANGED outsidePipeline

NextDifficulty == Difficulty

SpecDifficulty == InitDifficulty /\ [][NextDifficulty]_vars

\* bit i (from 1, most significant bit of the first byte first) of a byte sequence
BitOf(bytes, i) == (bytes[(i - 1) \div 8 + 1] \div (2 ^ (7 - ((i - 1) % 8)))) % 2

\* the byte sequence starts with at least D zero bits
StartsWithZeroBits(bytes, D) ==
    /\ D <= 8 * Len(bytes)
    /\ \A i \in 1..D : BitOf(bytes, i) = 0

\* C19: meets_difficulty(hash, D) is true iff hash, read most significant bit
\* first, starts with at least D zero bits; it is true for D = 0, and when it
\* holds for D it holds for every smaller D.
C19_MeetsIffZeroBits ==
    last.op = "meets_difficulty" =>
        /\ last.res <=> StartsWithZeroBits(last.hash, last.target_bits)
        /\ last.target_bits = 0 => last.res
        /\ last.res => \A D \in 0..last.target_bits : meets_difficulty(last.hash, D)

\* a zero byte followed by '0' (0x30, two leading zero bits) meets 10 bits
C19_Witness ==
    /\ last.op = "meets_difficulty"
    /\ last.hash = <<0, 48>>
    /\ last.target_bits = 10
    /\ last.res

----------------------------------------------------------------------------
(* The block manager on its own, and the claims about it *)

\* the block manager with more transactions on offer; the chain grows by
\* blocks built on its tip
Submit == AddTransactionUpTo(MaxPending)

TipBlocks == {b \in InputBlocks : b.previous_hash = Last(blocks).hash /\ b.hash = "fresh"}

Extend == \E b0 \in TipBlocks : AddBlockOf(WithHash(b0))

NextManager ==
    \/ Tick
    \/ Submit
    \/ Extend
    \/ ServiceCreate
    \/ ServiceMine
    \/ ServicePublish

SpecManager == Init /\ [][NextManager]_vars

\* pending is empty or the cadence interval has not elapsed
NothingToCreate ==
    \/ pending_transactions = <<>>
    \/ now - last_block_time < block_interval

\* C20: process_block_creation returns none and leaves pending, the
\* unfinalised map and last_block_time alone when pending is empty or the
\* interval has not elapsed; otherwise it returns a new Unfinalized block of
\* height len(blocks) on top of the last chain block, holding the pending
\* transactions in their order, empties pending, records the block under its
\* height in the unfinalised map and sets last_block_time to the current time.
C20_BlockCreation ==
    [][last'.op = "process_block_creation" =>
          /\ NothingToCreate =>
                /\ last'.res = "None"
                /\ svc'.block = NoBlock
                /\ pending_transactions' = pending_transactions
                /\ unfinalized_blocks' = unfinalized_blocks
                /\ last_block_time' = last_block_time
          /\ ~NothingToCreate =>
                /\ last'.res = "Some"
                /\ svc'.block.status = "Unfinalized"
                /\ svc'.block.height = Len(blocks)
                /\ svc'.block.previous_hash = Last(blocks).hash
                /\ svc'.block.transactions = pending_transactions
                /\ pending_transactions' = <<>>
                /\ \E i \in 1..Len(unfinalized_blocks') :
                       unfinalized_blocks'[i] = <<Len(blocks), svc'.block>>
                /\ \A i \in 1..Len(unfinalized_blocks') :
                       unfinalized_blocks'[i][1] = Len(blocks) =>
                           unfinalized_blocks'[i][2] = svc'.block
                /\ last_block_time' = now
      ]_vars

\* a block has just been created from two pending transactions
C20_Witness ==
    /\ last = Record("process_block_creation", "Some")
    /\ Len(svc.block.transactions) = 2
    /\ pending_transactions = <<>>

\* C21: add_transaction(tx) appends tx to pending; with an unfinalised block
\* it also appends tx to that block's transactions; without one it creates no
\* block and leaves the unfinalised map, last_block_time and the chain alone.
C21_AddTransactionFrame ==
    [][last'.op = "add_transaction" =>
          /\ pending_transactions' = Append(pending_transactions, Last(accepted'))
          /\ blocks' = blocks
          /\ last_block_time' = last_block_time
          /\ unfinalized_blocks # <<>> =>
                /\ Len(unfinalized_blocks') = Len(unfinalized_blocks)
                /\ \E i \in 1..Len(unfinalized_blocks) :
                       /\ unfinalized_blocks'[i][2].transactions =
                             Append(unfinalized_blocks[i][2].transactions, Last(accepted'))
                       /\ \A j \in 1..Len(unfinalized_blocks) \ {i} :
                             unfinalized_blocks'[j] = unfinalized_blocks[j]
          /\ unfinalized_blocks = <<>> => unfinalized_blocks' = <<>>
      ]_vars

----------------------------------------------------------------------------
(* Transactions offered first within the block interval, then after it *)

\* the first CallsWithin calls come before the interval has elapsed, the
\* next one after it
Offer ==
    /\ IF Len(accepted) < CallsWithin
       THEN now - last_block_time < block_interval
       ELSE now - last_block_time >= block_interval
    /\ AddTransactionUpTo(CallsWithin + 1)

NextOffers ==
    \/ Tick
    \/ Offer
    \/ Extend

SpecOffers == Init /\ [][NextOffers]_vars

\* C22: the add_transaction calls made within the block interval produce no
\* block; one more call after the interval has elapsed produces exactly one
\* new unfinalised block, holding all the transactions offered.
C22_BlockAfterInterval ==
    [][last'.op = "add_transaction" =>
          /\ (Len(accepted') <= CallsWithin /\ unfinalized_blocks = <<>>) =>
                unfinalized_blocks' = <<>>
          /\ (Len(accepted') = CallsWithin + 1 /\ unfinalized_blocks = <<>>) =>
                /\ Len(unfinalized_blocks') = 1
                /\ unfinalized_blocks'[1][2].status = "Unfinalized"
                /\ unfinalized_blocks'[1][2].transactions = accepted'
      ]_vars

----------------------------------------------------------------------------
(* Claims about the status of the blocks *)

\* C23: the unfinalised map holds only blocks with status Unfinalized, and
\* Block::add_transaction on a Finalized block returns false and leaves the
\* block's transactions as they are.
C23_UnfinalizedMapAndFinalizedBlocks ==
    /\ \A i \in 1..Len(unfinalized_blocks) : unfinalized_blocks[i][2].status = "Unfinalized"
    /\ \A b \in {blocks[i] : i \in 1..Len(blocks)} \cup {svc.block} :
          b.status = "Finalized" =>
              \A tx \in 1..(MaxTxs + 1) : Block_add_transaction(b, tx) = <<FALSE, b>>

\* mine has just finalised its block while the copy in the unfinalised map
\* is still there, on a chain whose last block is Finalized
C23_Witness ==
    /\ last = Record("mine", "true")
    /\ svc.block.status = "Finalized"
    /\ unfinalized_blocks # <<>>
    /\ Last(blocks).status = "Finalized"

----------------------------------------------------------------------------
(* The three tasks of a connection: the send task, the broadcast-forward task
   and the receive loop *)

\* the send task: writer.send fails, the task leaves its loop and drops peer_rx
SendFails(a) ==
    /\ tasks[a].send = "running"
    /\ tasks' = [tasks EXCEPT ![a].send = "finished"]
    /\ last' = NetRecord("send_task", "Err", a, NoFrame)
    /\ UNCHANGED <<peers, chan, seen_messages, conn, spawned, bq, intake_runs,
                   relay_attempts, traffic, connector>>
    /\ UNCHANGED <<outsideNet, ledgerVars>>

\* the broadcast-forward task: a published frame arrives and peer_tx.send
\* fails because the send task has dropped peer_rx; the task leaves its loop
ForwardStops(a) ==
    /\ tasks[a].forward = "running"
    /\ tasks[a].send = "finished"
    /\ bq # <<>>
    /\ tasks' = [tasks EXCEPT ![a].forward = "finished"]
    /\ last' = NetRecord("forward_task", "Err", a, NoFrame)
    /\ UNCHANGED <<peers, chan, seen_messages, conn, spawned, bq, intake_runs,
                   relay_attempts, traffic, connector>>
    /\ UNCHANGED <<outsideNet, ledgerVars>>

NextPeers ==
    \/ \E a \in Addrs : Connect(a)
    \/ \E a \in Addrs : SendFails(a)
    \/ \E a \in Addrs : ForwardStops(a)
    \/ \E a \in Addrs : Disconnect(a)
    \/ \E v \in 1..MaxData : Broadcast([identifier |-> "blocks", data |-> v])

\* the node's own tasks run when they can; the remote end closes the
\* connection or not, and the local publications come or not
SpecPeers ==
    /\ InitNet
    /\ [][NextPeers]_vars
    /\ WF_vars(\E a \in Addrs : ForwardStops(a))

\* C24: whenever one of a peer's three tasks has terminated, the peer's entry
\* is removed from the peers map.
C24_TaskEndRemovesPeer ==
    \A a \in Addrs :
        (\/ tasks[a].send = "finished"
         \/ tasks[a].forward = "finished"
         \/ conn[a].pc = "closed") ~> (a \notin peers)

----------------------------------------------------------------------------
(* Claims about the receive loop *)

\* C25: on one connection the frames are processed one after the other: a
\* frame is read only when the one before it has been dealt with (seen check,
\* intake, relay decision), the intake and the relay decision are those of the
\* frame read last on that connection, and its msg_id has been checked in.
C25_FramesInArrivalOrder ==
    [][\A a \in Addrs :
          /\ (last'.op = "receive" /\ last'.addr = a) =>
                /\ conn[a].pc = "read"
                /\ conn[a].frame = NoFrame
          /\ (last'.op = "intake" /\ last'.addr = a) =>
                /\ conn[a].pc = "intake"
                /\ conn[a].frame = last'.frame
                /\ last'.frame.msg_id \in seen_messages
          /\ (last'.op = "relay" /\ last'.addr = a) =>
                /\ conn[a].pc = "relay"
                /\ conn[a].frame = last'.frame
                /\ (last.op = "intake" /\ last.addr = a) => last.frame = last'.frame
      ]_vars

\* a frame is read on one connection while another connection is between the
\* seen check and the intake of its frame
C25_Witness ==
    /\ last.op = "receive"
    /\ \E a \in Addrs \ {last.addr} : conn[a].pc = "intake"

----------------------------------------------------------------------------
(* Claims about what the node publishes *)

\* C27: the block the mining service publishes after a successful mine is the
\* block that was appended to the chain, with its nonce, its hash and the
\* status Finalized, and its height has left the unfinalised map by then.
C27_PublishedIsAppended ==
    \A i \in 1..Len(published) :
        /\ published[i].status = "Finalized"
        /\ \E j \in 1..Len(blocks) :
              /\ blocks[j].nonce = published[i].nonce
              /\ blocks[j].hash = published[i].hash
              /\ blocks[j].status = "Finalized"
        /\ last.op = "publish" /\ i = Len(published) =>
              ~map_contains(unfinalized_blocks, published[i].height)

----------------------------------------------------------------------------
(* The frame of a wallet admission: client/handlers.rs create_wallet hands
   its payload to broadcast_to_peers, and a peer's receive loop takes the
   frame *)

\* the JSON text format_entry_value returns, as the inner data of a message:
\* JSON text is no base64, so it lies below the inner data that decode
entry_text(formatted_entry) == 0 - (1 + formatted_entry.value[2])

\* a base64 string read as a message text: the base64 alphabet has no ':', so
\* the text begins with no category; data is the inner data of what it encodes
base64_as_text(encoded) == [identifier |-> "base64", data |-> encoded[2].data]

\* create_wallet: the payload handed to broadcast_to_peers, which is the
\* base64 encoding of "accounts:<formatted entry>"
admission_payload(value) ==
    LET formatted_entry_str == entry_text(format_entry_value(get_key(value), value))
        broadcast_message_plain == [identifier |-> "accounts", data |-> formatted_entry_str]
        broadcast_message_base64 == encode_string_to_base64(broadcast_message_plain)
    IN  base64_as_text(broadcast_message_base64)

\* broadcast_to_peers: the frame sent on the broadcast channel for
\* payload_string, which it encodes to base64
broadcast_frame(payload_string) ==
    LET base64_payload_bytes == encode_string_to_base64(payload_string)
        msg_id == calculate_message_id(base64_payload_bytes)
    IN  to_hex(<<msg_id, base64_payload_bytes>>)

\* the frames the wallet admissions of other nodes put on the wire
AdmissionFrames == {broadcast_frame(admission_payload(value)) : value \in Values}

\* a node that admits wallets itself and whose peers send it the frames of
\* their wallet admissions
NextAdmission ==
    \/ \E a \in Addrs : Connect(a)
    \/ \E value \in Values : Broadcast(admission_payload(value))
    \/ \E a \in Addrs, frame \in AdmissionFrames : Receive(a, frame)
    \/ \E a \in Addrs : Disconnect(a)

SpecAdmission == InitNet /\ [][NextAdmission]_vars

\* C28: the frame of a successful wallet admission that reaches a connected
\* peer which has not seen it decodes to the text accounts:<formatted entry>
\* and goes on to receive_from_peer under the category accounts.
C28_AdmissionFrameIsTaken ==
    [][\A value \in Values :
          LET frame == broadcast_frame(admission_payload(value))
          IN  (/\ last'.op = "receive"
               /\ frame.msg_id \notin seen_messages
               /\ frame.msg_id \in seen_messages') =>
                 /\ conn'[last'.addr] = [pc |-> "intake", frame |-> frame]
                 /\ TextOf(frame) =
                       [identifier |-> "accounts",
                        data |-> entry_text(format_entry_value(get_key(value), value))]
      ]_vars

----------------------------------------------------------------------------
(* Claims about the key of a peer intake *)

\* C29: the entry a successful receive_from_peer leaves in the ledger and in
\* the store is filed under get_key of its value, whatever key the message
\* advertises.
C29_IntakeKeyIsContentKey ==
    (last.op = "receive_from_peer" /\ last.res = "Ok") =>
        /\ last.key \in DOMAIN entries
        /\ last.key \in DOMAIN db
        /\ last.key = get_key(entries[last.key].value)

----------------------------------------------------------------------------
(* client/network.rs connect_to_peers: one connect task per seed address *)

\* connect_to_peers: a task is spawned for every seed address but the node's
\* own; it starts with attempt 0 and the initial delay
spawn_connect_tasks(seeds) ==
    [s \in seeds |->
        IF s = get_listen_addr THEN NoConnector
        ELSE [pc |-> "try", attempt |-> 0, delay |-> initial_delay, tries |-> 0,
              waits |-> <<>>]]

\* one turn of the while loop of a connect task; connected is the outcome of
\* TcpStream::connect within its timeout. tries counts the calls of connect,
\* waits lists the sleeps.
connect_turn(c, connected) ==
    IF connected THEN [c EXCEPT !.pc = "connected", !.tries = @ + 1]
    ELSE IF c.attempt + 1 < connect_max_attempts
    THEN [pc |-> "try", attempt |-> c.attempt + 1, delay |-> c.delay + delay_step,
          tries |-> c.tries + 1, waits |-> Append(c.waits, c.delay + delay_step)]
    ELSE [c EXCEPT !.pc = "failed", !.attempt = @ + 1, !.tries = @ + 1]

\* start_network_connector calls connect_to_peers with the seed list
ConnectToPeers ==
    /\ connector = [s \in Seeds |-> NoConnector]
    /\ connector' = spawn_connect_tasks(Seeds)
    /\ last' = NetRecord("connect_to_peers", "Ok", get_listen_addr, NoFrame)
    /\ UNCHANGED <<peers, chan, seen_messages, conn, spawned, bq, intake_runs,
                   relay_attempts, traffic, tasks>>
    /\ UNCHANGED <<outsideNet, ledgerVars>>

\* a connect task goes through its loop once; on success it spawns
\* handle_connection, which registers the peer
ConnectTurn(s, connected) ==
    /\ connector[s].pc = "try"
    /\ connected => conn[s].pc = "none"
    /\ connector' = [connector EXCEPT ![s] = connect_turn(@, connected)]
    /\ peers' = IF connected THEN peers \cup {s} ELSE peers
    /\ conn' = IF connected THEN [conn EXCEPT ![s].pc = "read"] ELSE conn
    /\ tasks' = IF connected
                THEN [tasks EXCEPT ![s] = [send |-> "running", forward |-> "running"]]
                ELSE tasks
    /\ last' = NetRecord("connect_turn", IF connected THEN "Ok" ELSE "Err", s, NoFrame)
    /\ UNCHANGED <<chan, seen_messages, spawned, bq, intake_runs, relay_attempts, traffic>>
    /\ UNCHANGED <<outsideNet, ledgerVars>>

NextConnector ==
    \/ ConnectToPeers
    \/ \E s \in Seeds, connected \in BOOLEAN : ConnectTurn(s, connected)

SpecConnector == InitNet /\ [][NextConnector]_vars

\* C30: for each seed address the node calls connect at most five times and
\* not again after a success; the wait after the first failure is 15 seconds
\* and every later wait is 10 seconds longer; the node's own address is never
\* tried.
C30_ConnectSchedule ==
    \A s \in Seeds :
        /\ connector[s].tries <= connect_max_attempts
        /\ s = get_listen_addr => connector[s].tries = 0
        /\ connector[s].pc = "connected" => s \in peers
        /\ \A i \in 1..Len(connector[s].waits) :
              connector[s].waits[i] = initial_delay + delay_step * (i - 1)

----------------------------------------------------------------------------
(* The conversions of the wire format on chosen inputs: utils/conversion.rs,
   utils/encoding.rs, broadcast_to_peers and the decoding of the receive
   loop *)

\* the longest byte sequence and the longest json_value that are tried
MaxText == 3
MaxJson == 2

\* byte values: zero, ':' and all bits set
WireBytes == {0, 58, 255}

RECURSIVE WireSeqs(_)
WireSeqs(n) ==
    IF n = 0 THEN {<<>>}
    ELSE WireSeqs(n - 1) \cup
         { Append(bytes, b) : bytes \in {q \in WireSeqs(n - 1) : Len(q) = n - 1},
                              b \in WireBytes }

\* to_hex on bytes: two digits per byte, the high one first (a digit is the
\* number it stands for)
RECURSIVE hex_digits(_)
hex_digits(bytes) ==
    IF bytes = <<>> THEN <<>>
    ELSE <<Head(bytes) \div 16, Head(bytes) % 16>> \o hex_digits(Tail(bytes))

\* from_hex on digits: <<ok, bytes>>; it goes in steps of two, stops when
\* fewer than two characters are left and fails on what is no digit (16 and
\* above here)
RECURSIVE parse_hex_digits(_)
parse_hex_digits(hex) ==
    IF Len(hex) < 2 THEN <<TRUE, <<>>>>
    ELSE IF hex[1] > 15 \/ hex[2] > 15 THEN <<FALSE, <<>>>>
    ELSE IF ~parse_hex_digits(SubSeq(hex, 3, Len(hex)))[1] THEN <<FALSE, <<>>>>
    ELSE <<TRUE, <<16 * hex[1] + hex[2]>> \o parse_hex_digits(SubSeq(hex, 3, Len(hex)))[2]>>

\* the padding character of base64, beside the sextets 0..63
Pad == 64

\* encode_string_to_base64 on bytes, the STANDARD engine: four sextets for three
\* bytes, the last group padded
RECURSIVE base64_encode(_)
base64_encode(bytes) ==
    IF bytes = <<>> THEN <<>>
    ELSE IF Len(bytes) = 1
    THEN <<bytes[1] \div 4, (bytes[1] % 4) * 16, Pad, Pad>>
    ELSE IF Len(bytes) = 2
    THEN <<bytes[1] \div 4, (bytes[1] % 4) * 16 + bytes[2] \div 16, (bytes[2] % 16) * 4, Pad>>
    ELSE <<bytes[1] \div 4, (bytes[1] % 4) * 16 + bytes[2] \div 16,
           (bytes[2] % 16) * 4 + bytes[3] \div 64, bytes[3] % 64>>
         \o base64_encode(SubSeq(bytes, 4, Len(bytes)))

\* decode_base64_to_string on characters, the STANDARD engine: <<ok, bytes>>; the length is a
\* multiple of four, padding stands only at the end of the last group, and
\* the bits a padded group leaves over are zero
RECURSIVE engine_decode(_)
engine_decode(chars) ==
    IF chars = <<>> THEN <<TRUE, <<>>>>
    ELSE IF Len(chars) < 4 THEN <<FALSE, <<>>>>
    ELSE IF chars[1] = Pad \/ chars[2] = Pad THEN <<FALSE, <<>>>>
    ELSE IF chars[3] = Pad
    THEN IF chars[4] = Pad /\ Len(chars) = 4 /\ chars[2] % 16 = 0
         THEN <<TRUE, <<chars[1] * 4 + chars[2] \div 16>>>>
         ELSE <<FALSE, <<>>>>
    ELSE IF chars[4] = Pad
    THEN IF Len(chars) = 4 /\ chars[3] % 4 = 0
         THEN <<TRUE, <<chars[1] * 4 + chars[2] \div 16,
                        (chars[2] % 16) * 16 + chars[3] \div 4>>>>
         ELSE <<FALSE, <<>>>>
    ELSE IF ~engine_decode(SubSeq(chars, 5, Len(chars)))[1] THEN <<FALSE, <<>>>>
    ELSE <<TRUE, <<chars[1] * 4 + chars[2] \div 16,
                   (chars[2] % 16) * 16 + chars[3] \div 4,
                   (chars[3] % 4) * 64 + chars[4]>>
                 \o engine_decode(SubSeq(chars, 5, Len(chars)))[2]>>

\* a message text as its words: the word before the first ':', the ':' and
\* the characters of the json_value, which may be ':' themselves
JsonChars == {"x", ":"}

RECURSIVE JsonValues(_)
JsonValues(n) ==
    IF n = 0 THEN {<<>>}
    ELSE JsonValues(n - 1) \cup
         { Append(j, c) : j \in {q \in JsonValues(n - 1) : Len(q) = n - 1}, c \in JsonChars }

message_text(category, json_value) == <<category, ":">> \o json_value

\* message.starts_with("blocks:") || .. "accounts:" || .. "mining:"
starts_with_category(message) ==
    /\ Len(message) >= 2
    /\ message[1] \in Categories
    /\ message[2] = ":"

\* message.rsplitn(2, ':'): the split at the last ':'
rsplitn2(message) ==
    IF \A i \in 1..Len(message) : message[i] # ":" THEN <<message>>
    ELSE LET i == CHOOSE k \in 1..Len(message) :
                      /\ message[k] = ":"
                      /\ \A j \in (k + 1)..Len(message) : message[j] # ":"
         IN  <<SubSeq(message, 1, i - 1), SubSeq(message, i + 1, Len(message))>>

\* message.splitn(2, ':'): the split at the first ':'
splitn2(message) ==
    IF \A i \in 1..Len(message) : message[i] # ":" THEN <<message>>
    ELSE LET i == CHOOSE k \in 1..Len(message) :
                      /\ message[k] = ":"
                      /\ \A j \in 1..(k - 1) : message[j] # ":"
         IN  <<SubSeq(message, 1, i - 1), SubSeq(message, i + 1, Len(message))>>

NotDecoded == [ok |-> FALSE, msg_id |-> <<>>, identifier |-> <<>>, inner |-> <<>>]

\* the receive loop on one frame, from from_hex to the two parts of the text
decode_frame(frame) ==
    IF ~split_frame(frame)[1] THEN NotDecoded
    ELSE IF ~decode_base64_to_string(split_frame(frame)[2][2])[1] THEN NotDecoded
    ELSE IF ~starts_with_category(decode_base64_to_string(split_frame(frame)[2][2])[2])
    THEN NotDecoded
    ELSE [ok |-> TRUE, msg_id |-> split_frame(frame)[2][1],
          identifier |-> splitn2(decode_base64_to_string(split_frame(frame)[2][2])[2])[1],
          inner |-> splitn2(decode_base64_to_string(split_frame(frame)[2][2])[2])[2]]

WireRecord(category, json_value, bytes, frame, decoded, hex_back, base64_back) ==
    [op |-> "wire", category |-> category, json_value |-> json_value, bytes |-> bytes,
     frame |-> frame, decoded |-> decoded, hex_back |-> hex_back,
     base64_back |-> base64_back]

\* a category, a json_value and a byte sequence are chosen at the start
InitWire ==
    /\ now = 0
    /\ blocks = <<Block_new(<<>>, <<>>, 0, 0, 0)>>
    /\ genesis_hash = blocks[1].hash
    /\ current_difficulty_bits = 0
    /\ pending_transactions = <<>>
    /\ last_block_time = 0
    /\ block_interval = 0
    /\ unfinalized_blocks = <<>>
    /\ svc = SvcIdle
    /\ published = <<>>
    /\ accepted = <<>>
    /\ \E category \in Categories, json_value \in JsonValues(MaxJson),
          bytes \in WireSeqs(MaxText) :
           last = [op |-> "input", category |-> category, json_value |-> json_value,
                   bytes |-> bytes]
    /\ LedgerInit
    /\ NetInit
    /\ LocksInit

\* the text goes through broadcast_to_peers and the decoding of the receive
\* loop, the bytes through to_hex and from_hex and through the base64 engine
Wire ==
    /\ last.op = "input"
    /\ last' = WireRecord(last.category, last.json_value, last.bytes,
                          broadcast_frame(message_text(last.category, last.json_value)),
                          decode_frame(broadcast_frame(message_text(last.category,
                                                                    last.json_value))),
                          parse_hex_digits(hex_digits(last.bytes)),
                          engine_decode(base64_encode(last.bytes)))
    /\ UNCHANGED <<chainVars, managerVars, now, svc, published, accepted>>
    /\ UNCHANGED outsidePipeline

NextWire == Wire

SpecWire == InitWire /\ [][NextWire]_vars

\* C31: the frame broadcast_to_peers builds for a text decodes, the way the
\* receive loop decodes it, to the msg_id SHA-256(b64(text)) and to the
\* category and the json_value of the text, also when the json_value holds a
\* ':'; from_hex undoes to_hex and the base64 decoding undoes the encoding.
C31_WireRoundTrip ==
    last.op = "wire" =>
        /\ last.decoded.ok
        /\ last.decoded.msg_id =
              calculate_message_id(encode_string_to_base64(
                  message_text(last.category, last.json_value)))
        /\ last.decoded.identifier = <<last.category>>
        /\ last.decoded.inner = last.json_value
        /\ last.hex_back = <<TRUE, last.bytes>>
        /\ last.base64_back = <<TRUE, last.bytes>>

\* a text whose json_value holds a ':' and three bytes have made the round trip
C31_Witness ==
    /\ last.op = "wire"
    /\ last.json_value = <<":", "x">>
    /\ Len(last.bytes) = 3
    /\ last.decoded.inner = <<":", "x">>

----------------------------------------------------------------------------
(* Claims about the tasks and their mutexes *)

\* the task waits at a lock call for a mutex that a task of S holds
WaitsWithin(t, S) ==
    /\ Instruction(t).op = "acquire"
    /\ lock_owner[Instruction(t).lock] \in S

\* C32: no reachable state has a set of tasks that each hold a mutex and wait
\* for a mutex held by a task of the set, however the wallet admission
\* handler, the receive tasks and the mining service interleave.
C32_NoDeadlock ==
    ~ \E S \in SUBSET Tasks :
          /\ S # {}
          /\ \A t \in S :
                /\ \E l \in Locks : lock_owner[l] = t
                /\ WaitsWithin(t, S)

----------------------------------------------------------------------------
(* Claims about where transactions are *)

\* the number of blocks of the unfinalised map and of the chain that hold tx
BlocksHolding(tx) ==
    Cardinality({i \in 1..Len(unfinalized_blocks) :
                    \E j \in 1..Len(unfinalized_blocks[i][2].transactions) :
                        unfinalized_blocks[i][2].transactions[j] = tx})
    + Cardinality({i \in 1..Len(blocks) :
                      \E j \in 1..Len(blocks[i].transactions) :
                          blocks[i].transactions[j] = tx})

InPending(tx) == \E i \in 1..Len(pending_transactions) : pending_transactions[i] = tx

\* C33: every transaction add_transaction has taken is in pending, in a block
\* of the unfinalised map or in a block of the chain, in every later state.
C33_NoTransactionLost ==
    \A k \in 1..Len(accepted) : InPending(accepted[k]) \/ BlocksHolding(accepted[k]) > 0

----------------------------------------------------------------------------
(* Claims about the entries map *)

\* key is a committed leaf of the tree of the category
CommittedLeaf(trs, tree_identifier, key) ==
    /\ tree_identifier \in Categories
    /\ \E i \in 1..Len(get_leaves(trs[tree_identifier])) :
          get_leaves(trs[tree_identifier])[i] = key

\* C34: every key of the entries map is a committed leaf of the tree its
\* entry's proof names and has a value in the store, and a
\* commit_with_identifier that returns no proof leaves the entries map as it
\* was.
C34_EntriesAreCommittedAndStored ==
    [][ /\ \A k \in DOMAIN entries' :
              /\ CommittedLeaf(trees', entries'[k].proof.tree_identifier, k)
              /\ k \in DOMAIN db'
        /\ (last'.op = "commit" /\ last'.res = "None") => entries' = entries
      ]_vars

----------------------------------------------------------------------------
(* Claims about the blocks of the block manager *)

\* tx is in a block of the unfinalised map ub
HeldIn(ub, tx) ==
    \E i \in 1..Len(ub) : \E j \in 1..Len(ub[i][2].transactions) :
        ub[i][2].transactions[j] = tx

InAtMostOneBlock == \A k \in 1..Len(accepted) : BlocksHolding(accepted[k]) <= 1

\* C35: a transaction that is in a block of the unfinalised map is not put
\* into the block a later process_block_creation of the mining service
\* creates, and across the unfinalised map and the chain every transaction
\* that add_transaction has taken is in at most one block.
C35_NotInTwoBlocks ==
    [][ /\ InAtMostOneBlock'
        /\ (last'.op = "process_block_creation" /\ last'.res = "Some") =>
              \A j \in 1..Len(svc'.block.transactions) :
                  ~HeldIn(unfinalized_blocks, svc'.block.transactions[j])
      ]_vars

----------------------------------------------------------------------------
(* Claims about the msg_id of a frame *)

\* C36: a frame goes on to receive_from_peer only when its msg_id is the
\* SHA-256 of its base64 payload, and a receive turn that puts a msg_id into
\* seen_messages is the turn of such a frame (the frames of the overlay model
\* that stop before receive_from_peer all carry the msg_id of another
\* payload).
C36_MsgIdIsCheckedAgainstPayload ==
    [][ last'.op = "receive" =>
          /\ last'.res = "new" =>
                last'.frame.msg_id = calculate_message_id(last'.frame.payload)
          /\ seen_messages' # seen_messages =>
                /\ last'.res = "new"
                /\ seen_messages' =
                      seen_messages \cup {calculate_message_id(last'.frame.payload)}
      ]_vars

----------------------------------------------------------------------------
(* Claims about the heights of the waiting blocks *)

\* C37: the unfinalised map holds at most one block, and a block stored
\* under the key h has the height h, which is the length of the chain.
C37_OneWaitingBlockAtChainLength ==
    /\ Len(unfinalized_blocks) <= 1
    /\ \A i \in 1..Len(unfinalized_blocks) :
          /\ unfinalized_blocks[i][2].height = unfinalized_blocks[i][1]
          /\ unfinalized_blocks[i][1] = Len(blocks)

----------------------------------------------------------------------------
(* Claims about the difficulty *)

\* the blocks of a state: those of the chain, those of the unfinalised map
\* and the one the mining service holds
BlocksOfState ==
    {blocks[i] : i \in 1..Len(blocks)}
    \cup {unfinalized_blocks[i][2] : i \in 1..Len(unfinalized_blocks)}
    \cup (IF svc.block = NoBlock THEN {} ELSE {svc.block})

\* C38: the bytes of a hash that transform produced have at most two leading
\* zero bits for meets_difficulty, so no hash meets a target of three bits or
\* more (the initial difficulty of 16 bits among them) and mine returns
\* false for such a target.
C38_HexTextHasTwoZeroBitsAtMost ==
    [][ /\ \A b \in BlocksOfState' :
              b.hash # <<>> =>
                 /\ LeadingZeros(HashBytes(b.hash)) <= 2
                 /\ \A D \in {3, INITIAL_DIFFICULTY_BITS} :
                       ~meets_difficulty(HashBytes(b.hash), D)
        /\ (/\ last'.op = "mine"
            /\ get_difficulty_target(svc.block, blocks, current_difficulty_bits) >= 3) =>
               last'.res = "false"
      ]_vars

\* mine has given up on a block whose target is three bits
C38_Witness ==
    /\ last = Record("mine", "false")
    /\ current_difficulty_bits = 3
    /\ \E i \in 1..Len(unfinalized_blocks) :
          get_difficulty_target(unfinalized_blocks[i][2], blocks, current_difficulty_bits) = 3

\* the heights at which get_difficulty_target does not return the difficulty
\* of the chain as it is: the first block and the first retarget
RetargetHeights == {0, DIFFICULTY_ADJUSTMENT_INTERVAL}

MineRecord(res, block) == [op |-> "mine", res |-> res, block |-> block]

\* Block::mine as it would be if it stored the target it computed in the chain
MineAt_storing_target(height) ==
    /\ \E t2 \in SecondCall(now) :
         LET block == Block_new(<<>>, Last(blocks).hash, height, now, t2)
             r == mine(block, blocks, genesis_hash, current_difficulty_bits,
                       unfinalized_blocks)
         IN  /\ blocks' = r[3]
             /\ unfinalized_blocks' = r[4]
             /\ current_difficulty_bits' =
                    get_difficulty_target(block, blocks, current_difficulty_bits)
             /\ last' = MineRecord(IF r[1] THEN "true" ELSE "false", block)
    /\ UNCHANGED outsidePipeline
    /\ UNCHANGED <<genesis_hash, pending_transactions, last_block_time,
                   block_interval, now, svc, published, accepted>>

\* a direct call of Block::mine on a new block of the given height
MineAt(height) ==
    /\ \E t2 \in SecondCall(now) :
         LET block == Block_new(<<>>, Last(blocks).hash, height, now, t2)
             r == mine(block, blocks, genesis_hash, current_difficulty_bits,
                       unfinalized_blocks)
         IN  /\ blocks' = r[3]
             /\ unfinalized_blocks' = r[4]
             /\ last' = MineRecord(IF r[1] THEN "true" ELSE "false", block)
    /\ UNCHANGED outsidePipeline
    /\ UNCHANGED <<current_difficulty_bits, genesis_hash, pending_transactions,
                   last_block_time, block_interval, now, svc, published, accepted>>

MineAtRetarget == \E height \in RetargetHeights : MineAt(height)

\* the block pipeline with blocks of the retarget heights mined as well
NextRetarget ==
    \/ Tick
    \/ AddTransaction
    \/ AddBlock
    \/ ServiceCreate
    \/ ServiceMine
    \/ ServicePublish
    \/ MineAtRetarget

SpecRetarget == Init /\ [][NextRetarget]_vars

\* C39: no step of get_difficulty_target, mine, finalize, add_block or
\* process_block_creation changes Blockchain.current_difficulty_bits, also
\* not the mining of a block whose computed target differs from it; add_block
\* goes on verifying against the value the chain was constructed with.
C39_DifficultyBitsNeverChange ==
    [][current_difficulty_bits' = current_difficulty_bits]_vars

\* a block of the first retarget height has been mined against a target that
\* is not the difficulty of the chain
C39_Witness ==
    /\ last.op = "mine"
    /\ last.res = "true"
    /\ "block" \in DOMAIN last
    /\ last.block.height = DIFFICULTY_ADJUSTMENT_INTERVAL
    /\ get_difficulty_target(last.block, blocks, current_difficulty_bits)
          # current_difficulty_bits

----------------------------------------------------------------------------
(* Claims about the order of relayed frames *)

\* states other nodes publish on one connection after another
MaxRelayed == 2

\* the frames other nodes publish for their block states
RelayFrames ==
    {broadcast_frame([identifier |-> "blocks", data |-> v]) : v \in 1..MaxRelayed}

RelayMsgIds == {frame.msg_id : frame \in RelayFrames}

\* a node without peers whose counters cover the message ids of RelayFrames
InitRelay ==
    /\ PipelineInit
    /\ current_difficulty_bits = 0
    /\ block_interval = 0
    /\ LedgerInit
    /\ LocksInit
    /\ peers = {}
    /\ chan = [a \in Addrs |-> <<>>]
    /\ seen_messages = {}
    /\ conn = [a \in Addrs |-> Idle]
    /\ spawned = {}
    /\ bq = <<>>
    /\ intake_runs = [m \in RelayMsgIds |-> 0]
    /\ relay_attempts = [m \in RelayMsgIds |-> 0]
    /\ traffic = [frames |-> 0, broadcasts |-> 0]
    /\ tasks = [a \in Addrs |-> NoTasks]
    /\ connector = [s \in Seeds |-> NoConnector]

\* peers connect, send frames of different states and have them relayed
NextRelay ==
    \/ \E a \in Addrs : Connect(a)
    \/ \E a \in Addrs, frame \in RelayFrames : Receive(a, frame)
    \/ \E a \in Addrs : Intake(a)
    \/ \E a \in Addrs : Relay(a)
    \/ \E t \in spawned : RelaySend(t)

SpecRelay == InitRelay /\ [][NextRelay]_vars

\* C40: the frames relayed for one connection reach each recipient's send
\* channel in the order of their relay; so the frame a connection has just
\* had relayed is never put on a recipient's channel while a frame relayed
\* for that connection before it is still waiting to be sent to that recipient.
C40_RelayedInOrder ==
    [][\A t \in spawned :
          (/\ last.op = "relay"
           /\ t.from = last.addr
           /\ t.frame = last.frame
           /\ spawned' = spawned \ {t}
           /\ chan'[t.to] = Append(chan[t.to], t.frame)) =>
              ~\E earlier \in spawned :
                  /\ earlier.from = t.from
                  /\ earlier.to = t.to
                  /\ earlier.frame # t.frame
      ]_vars

====
